---- MODULE Spec2Model ----
(***************************************************************************)
(* rsqlite3: the REPL control loop (src/src/repl.rs), the REPL state       *)
(* (src/src/cli_state.rs) and the dot-command dispatcher                   *)
(* (src/src/dot_commands.rs).                                              *)
(*                                                                         *)
(* Text is a sequence of lexemes.  A lexeme is one whitespace character    *)
(* (WS), one semicolon (SEMI), or a maximal run of other characters (a     *)
(* word such as ".mode", "csv", "a.csv", "SELECT").  trim, split_whitespace,*)
(* split(';'), starts_with('.') and ends_with(';') are computed on that    *)
(* representation exactly as the standard library computes them on the     *)
(* characters.                                                             *)
(*                                                                         *)
(* The second half of the module is the language service (src/src/lsp.rs), *)
(* the output formatter (src/src/output.rs) and the dump                   *)
(* (src/src/import_export.rs), each studied through calls of its functions.*)
(***************************************************************************)
EXTENDS Integers, Sequences, FiniteSets, TLC

VARIABLES conn, state, editor, sql_buffer, dbs, pc, ret, last, entered, run_base, auto_mode,
          lsp, catalog, call

\* the shell: the fields of Repl, the files on disk and the history variables
replvars == <<conn, state, editor, sql_buffer, dbs, pc, ret, last, entered, run_base, auto_mode>>

\* the language service studied on its own: an SqlLspService (lsp), the database
\* it reads (catalog), and the call in progress of a function of the library
\* with its argument and result (call)
lspvars == <<lsp, catalog, call>>

vars == <<replvars, lspvars>>

(***************************************************************************)
(* Bounds of the model.                                                    *)
(***************************************************************************)
\* longest sql_buffer (in lexemes) the model lets the REPL accumulate
MaxBuf == 4
\* deepest nesting of .read scripts that is followed
MaxDepth == 2

None == "None"
WS == " "
SEMI == ";"

(***************************************************************************)
(* String helpers (std::str).                                              *)
(***************************************************************************)
\* the line feed, and the characters char::is_whitespace holds for
NL == "\n"
Whitespace == { WS, NL }

RECURSIVE trim_start(_)
trim_start(s) ==
    IF s # <<>> /\ Head(s) \in Whitespace THEN trim_start(Tail(s)) ELSE s

RECURSIVE trim_end(_)
trim_end(s) ==
    IF s # <<>> /\ s[Len(s)] \in Whitespace THEN trim_end(SubSeq(s, 1, Len(s) - 1)) ELSE s

trim(s) == trim_end(trim_start(s))

\* every word of the model that begins with the character '.'
DotWords ==
    { ".quit", ".exit", ".help", ".tables", ".schema", ".mode", ".headers", ".show",
      ".dump", ".output", ".read", ".databases", ".separator", ".nullvalue",
      ".import", ".timer", ".echo", ".width", ".bail", ".open",
      ".bogus", ".schemas", ".tablesx" }

starts_with_dot(s) == s # <<>> /\ s[1] \in DotWords

ends_with_semi(s) == s # <<>> /\ s[Len(s)] = SEMI

\* str::starts_with(prefix) for a text whose first lexeme is a word: the words
\* of the model that have the given command name as a prefix
WordsWithPrefix(prefix) ==
    CASE prefix = ".schema" -> { ".schema", ".schemas" }
      [] prefix = ".tables" -> { ".tables", ".tablesx" }
      [] OTHER -> { prefix }

starts_with(s, prefix) == s # <<>> /\ s[1] \in WordsWithPrefix(prefix)

\* str::split_whitespace: the maximal runs of non-whitespace lexemes
RECURSIVE split_whitespace_from(_, _, _)
split_whitespace_from(s, cur, acc) ==
    IF s = <<>>
    THEN IF cur = <<>> THEN acc ELSE Append(acc, cur)
    ELSE IF Head(s) \in Whitespace
         THEN split_whitespace_from(Tail(s), <<>>, IF cur = <<>> THEN acc ELSE Append(acc, cur))
         ELSE split_whitespace_from(Tail(s), Append(cur, Head(s)), acc)

split_whitespace(s) == split_whitespace_from(s, <<>>, <<>>)

\* str::split(';'): the pieces between semicolons, the last one included
RECURSIVE split_semi_from(_, _, _)
split_semi_from(s, cur, acc) ==
    IF s = <<>>
    THEN Append(acc, cur)
    ELSE IF Head(s) = SEMI
         THEN split_semi_from(Tail(s), <<>>, Append(acc, cur))
         ELSE split_semi_from(Tail(s), Append(cur, Head(s)), acc)

split_semi(s) == split_semi_from(s, <<>>, <<>>)

(***************************************************************************)
(* cli_state.rs                                                            *)
(***************************************************************************)
OutputMode == { "list", "csv", "column", "line", "json", "jsonl", "table", "markdown" }

\* OutputMode::from_str on a word (the words of the model are lower case)
OutputMode_from_str(w) ==
    CASE w = "list" -> "list"
      [] w = "csv" -> "csv"
      [] w \in { "column", "columns" } -> "column"
      [] w = "line" -> "line"
      [] w = "json" -> "json"
      [] w = "jsonl" -> "jsonl"
      [] w \in { "table", "box" } -> "table"
      [] w \in { "markdown", "md" } -> "markdown"
      [] OTHER -> None

\* Path::extension, lower-cased, of the file names of the model
extension(p) ==
    CASE p \in { "a.csv", "b.csv", "nodir/x.csv" } -> "csv"
      [] p = "c.json" -> "json"
      [] p = "d.jsonl" -> "jsonl"
      [] p = "e.md" -> "md"
      [] p = "f.txt" -> "txt"
      [] OTHER -> None

\* File::create succeeds unless the directory of the path does not exist
CanCreate(p) == p # "nodir/x.csv"

CliState_new(database_path, color) ==
    [ output_mode |-> "table",
      show_headers |-> TRUE,
      separator |-> "|",
      null_value |-> "",
      echo |-> FALSE,
      bail |-> FALSE,
      output_file |-> None,
      timer |-> FALSE,
      database_path |-> database_path,
      color_enabled |-> color,
      column_widths |-> <<>>,
      saved_output_mode |-> None ]

set_mode(st, mode) == [st EXCEPT !.output_mode = mode]
set_headers(st, show) == [st EXCEPT !.show_headers = show]
set_separator(st, sep) == [st EXCEPT !.separator = sep]
set_null_value(st, value) == [st EXCEPT !.null_value = value]
set_echo(st, echo) == [st EXCEPT !.echo = echo]
set_bail(st, bail) == [st EXCEPT !.bail = bail]
set_timer(st, timer) == [st EXCEPT !.timer = timer]
set_column_widths(st, widths) == [st EXCEPT !.column_widths = widths]

\* the mode guessed from the extension (cli_state.rs:146-153)
mode_of_extension(ext) ==
    CASE ext = "csv" -> "csv"
      [] ext = "json" -> "json"
      [] ext \in { "jsonl", "ndjson" } -> "jsonl"
      [] ext \in { "md", "markdown" } -> "markdown"
      [] OTHER -> None

\* a slot that is overwritten by every extension-driven switch
save_mode_always(st) == st.output_mode

\* the saved-mode slot after an extension-driven switch (cli_state.rs:158-160)
save_mode(st) ==
    IF st.saved_output_mode = None THEN st.output_mode ELSE st.saved_output_mode

\* a revert that empties the slot and keeps the mode of the redirection
restore_mode_dropped(st) == [st EXCEPT !.saved_output_mode = None]

\* the restoration of the saved mode when output reverts (cli_state.rs:171-172)
restore_mode(st) ==
    IF st.saved_output_mode # None
    THEN [st EXCEPT !.output_mode = st.saved_output_mode, !.saved_output_mode = None]
    ELSE st

\* CliState::set_output_file: [ok, state]
set_output_file(st, path) ==
    IF path # None
    THEN IF ~CanCreate(path)
         THEN [ok |-> FALSE, state |-> st]
         ELSE LET st1 == [st EXCEPT !.output_file = path]
                  new_mode == mode_of_extension(extension(path))
              IN  IF new_mode # None /\ new_mode # st1.output_mode
                  THEN [ok |-> TRUE,
                        state |-> [st1 EXCEPT !.saved_output_mode = save_mode(st1),
                                              !.output_mode = new_mode]]
                  ELSE [ok |-> TRUE, state |-> st1]
    ELSE [ok |-> TRUE, state |-> restore_mode([st EXCEPT !.output_file = None])]

(***************************************************************************)
(* The engine and the files on disk (external collaborators).              *)
(***************************************************************************)
TableNames == { "users" }
Schemas == SUBSET TableNames
DbFiles == { "a.db", "b.db" }

\* Connection::open succeeds on the database files and fails on any other path
CanOpen(p) == p \in DbFiles

\* what the engine may answer to one statement: an error, or success leaving the
\* connected database with some schema
EngineError == [ok |-> FALSE, schema |-> {}]
EngineOutcomes == { EngineError } \cup { [ok |-> TRUE, schema |-> sc] : sc \in Schemas }

\* the scripts on disk, by file name
Scripts ==
    [ s \in { "ok.sql", "fail.sql", "dot.sql", "open.sql", "quit.sql", "self.sql",
              "line.sql", "nest.sql" } |->
        CASE s = "ok.sql" -> << "CREATE", SEMI, WS, "SELECT", SEMI >>
          [] s = "fail.sql" -> << "bad", SEMI, WS, "CREATE", SEMI >>
          [] s = "dot.sql" -> << ".mode", WS, "bogus", SEMI, WS, ".tables", SEMI, "DROP", SEMI >>
          [] s = "open.sql" -> << ".open", WS, "b.db", SEMI, "SELECT", SEMI >>
          [] s = "quit.sql" -> << "SELECT", SEMI, ".quit", SEMI, "DROP" >>
          [] s = "self.sql" -> << ".read", WS, "self.sql", SEMI >>
          [] s = "line.sql" -> << ".headers", WS, "off", NL, "SELECT", SEMI >>
          [] s = "nest.sql" -> << ".read", WS, "ok.sql", SEMI, NL, "DROP", SEMI >> ]

\* db::execute_query under sql_executor::execute: [ok, dbs]
sql_executor_execute(c, sql, dbfiles, out) ==
    IF trim(sql) = <<>>
    THEN [ok |-> TRUE, dbs |-> dbfiles]
    ELSE IF ~out.ok
         THEN [ok |-> FALSE, dbs |-> dbfiles]
         ELSE [ok |-> TRUE, dbs |-> [dbfiles EXCEPT ![c] = out.schema]]

\* the engine's answer to the k-th statement of one input line
EngAt(eng, k) == IF eng = <<>> THEN EngineError ELSE eng[IF k > Len(eng) THEN Len(eng) ELSE k]

(***************************************************************************)
(* dot_commands.rs                                                         *)
(***************************************************************************)
DotCommand ==
    { ".quit", ".exit", ".help", ".tables", ".schema", ".mode", ".headers", ".show",
      ".dump", ".output", ".read", ".databases", ".separator", ".nullvalue",
      ".import", ".timer", ".echo", ".width", ".bail", ".open" }

\* the text of one whitespace-separated part: a single word, or a run of several
\* lexemes (such as "csv;") that equals no word the program knows
Word(part) == IF Len(part) = 1 THEN part[1] ELSE "?"

\* parts.get(i).copied()
Arg(parts, i) == IF Len(parts) >= i THEN Word(parts[i]) ELSE None

DotCommand_from_str(w) == IF w \in DotCommand THEN w ELSE None

\* parse_bool_arg (dot_commands.rs:535) and the literal matches of cmd_headers,
\* cmd_timer and cmd_echo: an Option<bool> as [some, value]
parse_bool_arg(v) ==
    CASE v \in { "on", "1", "yes", "true" } -> [some |-> TRUE, value |-> TRUE]
      [] v \in { "off", "0", "no", "false" } -> [some |-> TRUE, value |-> FALSE]
      [] OTHER -> [some |-> FALSE, value |-> FALSE]

\* str::parse::<usize>: a Result<usize> as [ok, value]
parse_usize(w) ==
    CASE w = "0" -> [ok |-> TRUE, value |-> 0]
      [] w = "1" -> [ok |-> TRUE, value |-> 1]
      [] w = "8" -> [ok |-> TRUE, value |-> 8]
      [] OTHER -> [ok |-> FALSE, value |-> 0]

\* the result of a handler: tag is Continue, Quit, ChangeDb (with path), Err, or
\* Exit (std::process::exit(0)); handed lists the statements given to the engine
Result(tag, path, st, dbfiles, k, handed) ==
    [tag |-> tag, path |-> path, state |-> st, dbs |-> dbfiles, k |-> k, handed |-> handed]

cmd_mode(st, mode) ==
    IF mode # None
    THEN IF OutputMode_from_str(mode) # None
         THEN [ok |-> TRUE, state |-> set_mode(st, OutputMode_from_str(mode))]
         ELSE [ok |-> FALSE, state |-> st]
    ELSE [ok |-> TRUE, state |-> st]

cmd_headers(st, value) ==
    IF value = None THEN [ok |-> TRUE, state |-> st]
    ELSE IF ~parse_bool_arg(value).some THEN [ok |-> FALSE, state |-> st]
    ELSE [ok |-> TRUE, state |-> set_headers(st, parse_bool_arg(value).value)]

cmd_timer(st, value) ==
    IF value = None THEN [ok |-> TRUE, state |-> st]
    ELSE IF ~parse_bool_arg(value).some THEN [ok |-> FALSE, state |-> st]
    ELSE [ok |-> TRUE, state |-> set_timer(st, parse_bool_arg(value).value)]

cmd_echo(st, value) ==
    IF value = None THEN [ok |-> TRUE, state |-> st]
    ELSE IF ~parse_bool_arg(value).some THEN [ok |-> FALSE, state |-> st]
    ELSE [ok |-> TRUE, state |-> set_echo(st, parse_bool_arg(value).value)]

cmd_bail(st, value) ==
    IF value = None THEN [ok |-> TRUE, state |-> st]
    ELSE IF ~parse_bool_arg(value).some THEN [ok |-> FALSE, state |-> st]
    ELSE [ok |-> TRUE, state |-> set_bail(st, parse_bool_arg(value).value)]

cmd_separator(st, sep) ==
    IF sep # None THEN [ok |-> TRUE, state |-> set_separator(st, sep)]
    ELSE [ok |-> TRUE, state |-> st]

cmd_nullvalue(st, value) ==
    IF value # None THEN [ok |-> TRUE, state |-> set_null_value(st, value)]
    ELSE [ok |-> TRUE, state |-> st]

cmd_output(st, file) ==
    LET r == set_output_file(st, file)
    IN  [ok |-> r.ok, state |-> r.state]

\* a cmd_width that stores the widths parsed before the argument that fails
cmd_width_partial(st, args) ==
    IF args = <<>>
    THEN [ok |-> FALSE, state |-> st]
    ELSE LET bad == { i \in 1..Len(args) : ~parse_usize(Word(args[i])).ok }
             upto == IF bad = {} THEN Len(args)
                     ELSE (CHOOSE i \in bad : \A j \in bad : i <= j) - 1
         IN  [ok |-> bad = {},
              state |-> set_column_widths(st, [i \in 1..upto |-> parse_usize(Word(args[i])).value])]

\* cmd_width: the widths are stored only when every argument parses
cmd_width(st, args) ==
    IF args = <<>>
    THEN [ok |-> FALSE, state |-> st]
    ELSE IF \E i \in 1..Len(args) : ~parse_usize(Word(args[i])).ok
         THEN [ok |-> FALSE, state |-> st]
         ELSE [ok |-> TRUE,
               state |-> set_column_widths(st, [i \in 1..Len(args) |-> parse_usize(Word(args[i])).value])]

\* the outcome record of a settings command as the dispatcher's result
Settled(r, dbfiles, k) ==
    Result(IF r.ok THEN "Continue" ELSE "Err", None, r.state, dbfiles, k, <<>>)

RECURSIVE execute(_, _, _, _, _, _, _)
RECURSIVE cmd_read(_, _, _, _, _, _, _)
RECURSIVE read_pieces(_, _, _, _, _, _, _, _)

\* the loop of cmd_read over the pieces of the script, from piece i on
read_pieces(c, pieces, i, st, dbfiles, eng, k, depth) ==
    IF i > Len(pieces)
    THEN Result("Continue", None, st, dbfiles, k, <<>>)
    ELSE LET trimmed == trim(pieces[i])
         IN  IF trimmed # <<>> /\ ~starts_with_dot(trimmed)
             THEN LET sql == Append(trimmed, SEMI)
                      r == sql_executor_execute(c, sql, dbfiles, EngAt(eng, k))
                  IN  IF ~r.ok
                      THEN Result("Err", None, st, r.dbs, k + 1, << sql >>)
                      ELSE LET rest == read_pieces(c, pieces, i + 1, st, r.dbs, eng, k + 1, depth)
                           IN  [rest EXCEPT !.handed = << sql >> \o rest.handed]
             ELSE IF starts_with_dot(trimmed)
                  THEN LET r == execute(c, trimmed, st, dbfiles, eng, k, depth)
                       IN  CASE r.tag = "Err" -> r
                             [] r.tag = "StackOverflow" -> r
                             [] r.tag = "Exit" -> r
                             [] r.tag = "ChangeDb" ->
                                   Result("Err", None, r.state, r.dbs, r.k, r.handed)
                             [] r.tag = "Quit" ->
                                   Result("Exit", None, r.state, r.dbs, r.k, r.handed)
                             [] OTHER ->
                                   LET rest == read_pieces(c, pieces, i + 1, r.state, r.dbs,
                                                           eng, r.k, depth)
                                   IN  [rest EXCEPT !.handed = r.handed \o rest.handed]
                  ELSE read_pieces(c, pieces, i + 1, st, dbfiles, eng, k, depth)

\* cmd_read: a script nested deeper than MaxDepth is not followed (the call
\* stack of the process is finite)
cmd_read(c, st, file, dbfiles, eng, k, depth) ==
    IF file \notin DOMAIN Scripts
    THEN Result("Err", None, st, dbfiles, k, <<>>)
    ELSE IF depth >= MaxDepth
         THEN Result("StackOverflow", None, st, dbfiles, k, <<>>)
         ELSE read_pieces(c, split_semi(Scripts[file]), 1, st, dbfiles, eng, k, depth + 1)

\* dot_commands::execute
execute(c, command, st, dbfiles, eng, k, depth) ==
    LET parts == split_whitespace(command)
        cmd_enum == IF parts = <<>> THEN None ELSE DotCommand_from_str(Word(parts[1]))
        arg1 == Arg(parts, 2)
    IN  CASE cmd_enum = None -> Result("Err", None, st, dbfiles, k, <<>>)
          [] cmd_enum \in { ".quit", ".exit" } -> Result("Quit", None, st, dbfiles, k, <<>>)
          [] cmd_enum \in { ".help", ".tables", ".schema", ".show", ".dump", ".databases" } ->
                Result("Continue", None, st, dbfiles, k, <<>>)
          [] cmd_enum = ".mode" -> Settled(cmd_mode(st, arg1), dbfiles, k)
          [] cmd_enum = ".headers" -> Settled(cmd_headers(st, arg1), dbfiles, k)
          [] cmd_enum = ".output" -> Settled(cmd_output(st, arg1), dbfiles, k)
          [] cmd_enum = ".read" ->
                IF arg1 # None
                THEN cmd_read(c, st, arg1, dbfiles, eng, k, depth)
                ELSE Result("Err", None, st, dbfiles, k, <<>>)
          [] cmd_enum = ".separator" -> Settled(cmd_separator(st, arg1), dbfiles, k)
          [] cmd_enum = ".nullvalue" -> Settled(cmd_nullvalue(st, arg1), dbfiles, k)
          [] cmd_enum = ".import" ->
                IF Len(parts) < 3 \/ ~EngAt(eng, k).ok
                THEN Result("Err", None, st, dbfiles, k, <<>>)
                ELSE Result("Continue", None, st, dbfiles, k, <<>>)
          [] cmd_enum = ".timer" -> Settled(cmd_timer(st, arg1), dbfiles, k)
          [] cmd_enum = ".echo" -> Settled(cmd_echo(st, arg1), dbfiles, k)
          [] cmd_enum = ".width" -> Settled(cmd_width(st, Tail(parts)), dbfiles, k)
          [] cmd_enum = ".bail" -> Settled(cmd_bail(st, arg1), dbfiles, k)
          [] cmd_enum = ".open" ->
                IF arg1 # None
                THEN Result("ChangeDb", arg1, st, dbfiles, k, <<>>)
                ELSE Result("Err", None, st, dbfiles, k, <<>>)

(***************************************************************************)
(* completion.rs: the completer held by the line editor                     *)
(***************************************************************************)
SqlCompleter_new(db_path) ==
    [db_path |-> db_path, cached_tables |-> {}]

\* SqlLspService::refresh_schema: the cached tables become those of the database
refresh_schema(helper, dbfiles, c) ==
    [helper EXCEPT !.cached_tables = dbfiles[c]]

\* SqlCompleter::refresh_cache: a connection of its own to db_path
refresh_cache(helper, dbfiles) ==
    IF CanOpen(helper.db_path)
    THEN refresh_schema(helper, dbfiles, helper.db_path)
    ELSE helper

(***************************************************************************)
(* repl.rs                                                                 *)
(***************************************************************************)
\* a completeness test that is thrown off by trailing whitespace
is_complete_statement_untrimmed(sql) == ends_with_semi(sql)

\* Repl::is_complete_statement
is_complete_statement(sql) == ends_with_semi(trim(sql))

\* the buffer after process_line has added the line (repl.rs:122-125)
push_line(buf, line) ==
    (IF buf # <<>> THEN Append(buf, WS) ELSE buf) \o line

\* a dispatch that looks at the line alone
is_dot_dispatch_any(buf, line) == starts_with_dot(trim(line))

\* the test that sends a line to the dispatcher (repl.rs:117)
is_dot_dispatch(buf, line) == starts_with_dot(trim(line)) /\ buf = <<>>

\* the test that refreshes the completion cache (repl.rs:148-149)
refreshes_cache(command) ==
    starts_with(command, ".schema") \/ starts_with(command, ".tables")

\* Repl::process_dot_command: [result, helper, refreshed]
process_dot_command(c, command, st, helper, dbfiles, eng) ==
    LET result == execute(c, command, st, dbfiles, eng, 1, 0)
    IN  [ result |-> result,
          helper |-> IF refreshes_cache(command) THEN refresh_cache(helper, result.dbs)
                     ELSE helper,
          refreshed |-> refreshes_cache(command) ]

\* Repl::process_line: [disp, result, sql_buffer, helper, refreshed]; disp names
\* the path taken: "dot", "sql" (a statement was executed) or "append"
process_line(buf, line, c, st, helper, dbfiles, eng) ==
    IF is_dot_dispatch(buf, line)
    THEN LET d == process_dot_command(c, trim(line), st, helper, dbfiles, eng)
         IN  [ disp |-> "dot", result |-> d.result, sql_buffer |-> buf,
               helper |-> d.helper, refreshed |-> d.refreshed ]
    ELSE LET buf1 == push_line(buf, line)
         IN  IF is_complete_statement(buf1)
             THEN LET sql == trim(buf1)
                      r == sql_executor_execute(c, sql, dbfiles, EngAt(eng, 1))
                  IN  [ disp |-> "sql",
                        result |-> Result(IF r.ok THEN "Continue" ELSE "Err", None, st,
                                          r.dbs, 2, << sql >>),
                        sql_buffer |-> <<>>, helper |-> helper, refreshed |-> FALSE ]
             ELSE [ disp |-> "append",
                    result |-> Result("Continue", None, st, dbfiles, 1, <<>>),
                    sql_buffer |-> buf1, helper |-> helper, refreshed |-> FALSE ]

\* the prompt of the next read (repl.rs:53-57)
prompt(buf) == IF buf = <<>> THEN "rsqlite3> " ELSE "     ...> "

\* a reconnection that leaves the completer of the previous database in place
reconnect_keeps_completer(base, path, dbfiles) ==
    [base EXCEPT !.conn = path,
                 !.state = [base.state EXCEPT !.database_path = path],
                 !.opened = "ok"]

\* the Ok arm of Connection::open(&path) on ChangeDb (repl.rs:70-79)
reconnect(base, path, dbfiles) ==
    [base EXCEPT !.conn = path,
                 !.state = [base.state EXCEPT !.database_path = path],
                 !.helper = refresh_cache(SqlCompleter_new(path), dbfiles),
                 !.opened = "ok",
                 !.refreshed = TRUE]

\* what the loop of Repl::run does with the result of process_line
\* (repl.rs:65-92): [conn, state, helper, sql_buffer, pc, ret, opened, refreshed]
after_line(r, c) ==
    LET st == r.result.state
        tag == r.result.tag
        base == [ conn |-> c, state |-> st, helper |-> r.helper,
                  sql_buffer |-> r.sql_buffer, pc |-> "prompt", ret |-> None,
                  opened |-> None, refreshed |-> r.refreshed ]
    IN  CASE tag = "Quit" -> [base EXCEPT !.pc = "done", !.ret = "Ok"]
          [] tag = "ChangeDb" ->
                IF CanOpen(r.result.path)
                THEN reconnect(base, r.result.path, r.result.dbs)
                ELSE [base EXCEPT !.opened = "failed"]
          [] tag = "Continue" -> base
          [] tag = "Err" ->
                IF st.bail
                THEN [base EXCEPT !.pc = "done", !.ret = "Err"]
                ELSE [base EXCEPT !.sql_buffer = <<>>]
          [] tag = "Exit" -> [base EXCEPT !.pc = "done", !.ret = "exit(0)"]
          [] tag = "StackOverflow" -> [base EXCEPT !.pc = "done", !.ret = "abort"]

(***************************************************************************)
(* History variables (they record what happened; the program has none of    *)
(* them):                                                                  *)
(*   last      the last event of the loop and what process_line did with it *)
(*   entered   the lines entered since sql_buffer was last empty            *)
(*   run_base  the run of `.output F.csv` commands in progress and the mode *)
(*             in force before its first command                           *)
(*   auto_mode the mode selected from a file extension since output last    *)
(*             reverted to stdout, None when there is none                  *)
(***************************************************************************)
NoEvent(ev) ==
    [ ev |-> ev, line |-> <<>>, disp |-> None, tag |-> None, opened |-> None,
      refreshed |-> FALSE, handed |-> <<>>,
      before |-> [output_mode |-> None, saved_output_mode |-> None, pending |-> FALSE] ]

\* the command word and first argument of a line that went to the dispatcher
CommandOf(line) ==
    LET parts == split_whitespace(trim(line))
    IN  IF parts = <<>> THEN None ELSE Word(parts[1])

ArgumentOf(line) == Arg(split_whitespace(trim(line)), 2)

next_run_base(rb, st, disp, line) ==
    LET is_output == disp = "dot" /\ CommandOf(line) = ".output"
        csv_file == is_output /\ ArgumentOf(line) # None /\ extension(ArgumentOf(line)) = "csv"
        revert == is_output /\ ArgumentOf(line) = None
    IN  CASE csv_file /\ rb.phase = "running" -> rb
          [] csv_file /\ st.saved_output_mode = None ->
                [phase |-> "running", base |-> st.output_mode]
          [] revert /\ rb.phase = "running" -> [phase |-> "reverted", base |-> rb.base]
          [] OTHER -> [phase |-> "idle", base |-> None]

next_auto_mode(am, st, st2, disp, tag, line) ==
    LET is_output == disp = "dot" /\ CommandOf(line) = ".output" /\ tag = "Continue"
    IN  CASE is_output /\ ArgumentOf(line) # None /\ st2.output_mode # st.output_mode ->
                st2.output_mode
          [] is_output /\ ArgumentOf(line) = None -> None
          [] OTHER -> am

(***************************************************************************)
(* Inputs.                                                                 *)
(***************************************************************************)
\* most statements one input line can hand to the engine (a script's pieces)
MaxStmts == 3

\* the engine's answers to the statements of one line: none when the line
\* reaches no statement
EngineAnswers(buf, line) ==
    IF is_dot_dispatch(buf, line)
    THEN IF CommandOf(line) \in { ".read", ".import" }
         THEN [1..MaxStmts -> EngineOutcomes]
         ELSE { <<>> }
    ELSE IF is_complete_statement(push_line(buf, line))
         THEN [1..1 -> EngineOutcomes]
         ELSE { <<>> }

ModeWords == OutputMode \cup { "box", "bogus" }
OutputFiles == { "a.csv", "b.csv", "c.json", "e.md", "f.txt", "nodir/x.csv" }

\* the lines of a session that sets modes and redirects output
OutputLines ==
    { << ".mode", WS, m >> : m \in ModeWords }
      \cup { << ".output", WS, f >> : f \in OutputFiles }
      \cup { << ".output" >>, << ".mode" >> }

(***************************************************************************)
(* The loop of Repl::run: one action per arm of `match readline`.           *)
(***************************************************************************)
\* the databases on disk when the shell starts, and the one it is started on
InitialDbs == [f \in DbFiles |-> IF f = "a.db" THEN {} ELSE TableNames]
InitialDbPath == "a.db"
\* is_color_supported(): stdout is a terminal
StdoutIsTerminal == TRUE

\* no call of the library is in progress
NoCall == [op |-> "none"]

\* the language service and the library are not exercised
LibraryIdle ==
    /\ lsp = [cached_tables |-> <<>>, cached_columns |-> <<>>,
              cached_create_sqls |-> <<>>, cached_indexes |-> <<>>]
    /\ catalog = [tables |-> {}, indexes |-> {}]
    /\ call = NoCall

\* Repl::new
ReplStart ==
    /\ conn = InitialDbPath
    /\ state = CliState_new(InitialDbPath, StdoutIsTerminal)
    /\ editor = [helper |-> refresh_cache(SqlCompleter_new(InitialDbPath), InitialDbs)]
    /\ sql_buffer = <<>>
    /\ dbs = InitialDbs
    /\ pc = "prompt"
    /\ ret = None
    /\ last = [NoEvent("start") EXCEPT !.refreshed = TRUE]
    /\ entered = <<>>
    /\ run_base = [phase |-> "idle", base |-> None]
    /\ auto_mode = None

Init == ReplStart /\ LibraryIdle

\* Ok(line)
ReadLine(line, eng) ==
    /\ pc = "prompt"
    /\ is_dot_dispatch(sql_buffer, line) \/ Len(push_line(sql_buffer, line)) <= MaxBuf
    /\ \E r \in { process_line(sql_buffer, line, conn, state, editor.helper, dbs, eng) } :
       \E a \in { after_line(r, conn) } :
           /\ conn' = a.conn
           /\ state' = a.state
           /\ editor' = [helper |-> a.helper]
           /\ sql_buffer' = a.sql_buffer
           /\ dbs' = r.result.dbs
           /\ pc' = a.pc
           /\ ret' = a.ret
           /\ last' = [ ev |-> "line", line |-> line, disp |-> r.disp,
                        tag |-> r.result.tag, opened |-> a.opened,
                        refreshed |-> a.refreshed, handed |-> r.result.handed,
                        before |-> [ output_mode |-> state.output_mode,
                                     saved_output_mode |-> state.saved_output_mode,
                                     pending |-> sql_buffer # <<>> ] ]
           /\ entered' = IF a.sql_buffer = <<>> THEN <<>> ELSE Append(entered, line)
           /\ run_base' = next_run_base(run_base, state, r.disp, line)
           /\ auto_mode' = next_auto_mode(auto_mode, state, a.state, r.disp, r.result.tag, line)
           /\ UNCHANGED lspvars

\* an interrupt that leaves the pending statement in the buffer
Interrupted_keeps_buffer ==
    /\ pc = "prompt"
    /\ last' = [NoEvent("interrupt") EXCEPT !.before.pending = sql_buffer # <<>>]
    /\ run_base' = [phase |-> "idle", base |-> None]
    /\ UNCHANGED <<conn, state, editor, sql_buffer, dbs, pc, ret, entered, auto_mode>>
    /\ UNCHANGED lspvars

\* Err(ReadlineError::Interrupted)
Interrupted ==
    /\ pc = "prompt"
    /\ sql_buffer' = <<>>
    /\ last' = [NoEvent("interrupt") EXCEPT !.before.pending = sql_buffer # <<>>]
    /\ entered' = <<>>
    /\ run_base' = [phase |-> "idle", base |-> None]
    /\ UNCHANGED <<conn, state, editor, dbs, pc, ret, auto_mode>>
    /\ UNCHANGED lspvars

\* Err(ReadlineError::Eof)
Eof ==
    /\ pc = "prompt"
    /\ pc' = "done"
    /\ ret' = "Ok"
    /\ last' = NoEvent("eof")
    /\ UNCHANGED <<conn, state, editor, sql_buffer, dbs, entered, run_base, auto_mode>>
    /\ UNCHANGED lspvars

\* Err(err): any other error of the line editor
ReadlineError ==
    /\ pc = "prompt"
    /\ pc' = "done"
    /\ ret' = "Ok"
    /\ last' = NoEvent("error")
    /\ UNCHANGED <<conn, state, editor, sql_buffer, dbs, entered, run_base, auto_mode>>
    /\ UNCHANGED lspvars

OutputInput == \E line \in OutputLines : \E eng \in EngineAnswers(sql_buffer, line) : ReadLine(line, eng)

NextOutput == OutputInput \/ Interrupted \/ Eof \/ ReadlineError

SpecOutput == Init /\ [][NextOutput]_vars

\* the lines of a session that enters statements, opens databases and quits
ReplLines ==
    { <<>>, << WS >>, << "SELECT" >>, << "SELECT", SEMI >>, << SEMI >>,
      << "CREATE", SEMI, WS >>,
      << ".quit" >>, << WS, ".exit" >>, << ".quit", SEMI >>,
      << ".mode", WS, "csv" >>, << ".bail", WS, "on" >>, << ".bail", WS, "off" >>,
      << ".open", WS, "b.db" >>, << ".open", WS, "a.db" >>, << ".open", WS, "nodir/x.db" >>,
      << ".open" >>, << ".schema" >>, << ".tables", WS, "users" >>,
      << ".schemas" >>, << ".bogus" >> }

ReplInput == \E line \in ReplLines : \E eng \in EngineAnswers(sql_buffer, line) : ReadLine(line, eng)

NextRepl == ReplInput \/ Interrupted \/ Eof \/ ReadlineError

SpecRepl == Init /\ [][NextRepl]_vars

\* the lines of a session that runs scripts
ReadLines ==
    { << ".read", WS, f >> : f \in { "ok.sql", "fail.sql", "dot.sql", "open.sql",
                                     "quit.sql", "missing.sql" } }
      \cup { << ".read" >>, << ".bail", WS, "on" >>, << ".bail", WS, "off" >>,
             << "DROP", SEMI >>, << "SELECT" >>, << ".mode", WS, "csv" >>,
             << ".open", WS, "b.db" >> }

ReadInput == \E line \in ReadLines : \E eng \in EngineAnswers(sql_buffer, line) : ReadLine(line, eng)

NextRead == ReadInput \/ Interrupted \/ Eof \/ ReadlineError

SpecRead == Init /\ [][NextRead]_vars

(***************************************************************************)
(* Properties of output redirection (SpecOutput).                          *)
(***************************************************************************)
\* the last event was a line that the dispatcher handled as the given command
Dispatched(cmd) ==
    last.ev = "line" /\ last.disp = "dot" /\ CommandOf(last.line) = cmd

\* C1: after one or more `.output F.csv` followed by `.output`, with the
\* saved-mode slot empty before the first of them, the active mode is the mode
\* in force before the first `.output F.csv` and the slot is empty again.
C1_CsvThenRevertRestoresMode ==
    run_base.phase = "reverted" =>
        /\ state.output_mode = run_base.base
        /\ state.saved_output_mode = None

\* a run that started in list mode, switched to csv and has been reverted
C1_Witness ==
    /\ run_base.phase = "reverted"
    /\ run_base.base = "list"
    /\ last.before.output_mode = "csv"
    /\ last.before.saved_output_mode = "list"

\* C2: while a mode is saved, `.output FILE` never changes the slot, although it
\* changes the active mode when the extension selects another one; the next
\* `.output` with no argument restores the saved mode and empties the slot; and
\* no other command touches the slot.
C2_SavedModeKeptUntilRevert ==
    [][ state.saved_output_mode # None =>
          \/ /\ state'.saved_output_mode = state.saved_output_mode
             /\ \A f \in OutputFiles :
                  ( /\ last'.ev = "line"
                    /\ last'.line = << ".output", WS, f >>
                    /\ CanCreate(f)
                    /\ mode_of_extension(extension(f)) \notin { None, state.output_mode } )
                  => state'.output_mode = mode_of_extension(extension(f))
             /\ ~( last'.ev = "line" /\ last'.line = << ".output" >> )
          \/ /\ last'.ev = "line" /\ last'.line = << ".output" >>
             /\ state'.output_mode = state.saved_output_mode
             /\ state'.saved_output_mode = None
      ]_vars

\* `.output c.json` while a.csv had saved list mode: json is active, list saved
C2_Witness ==
    /\ Dispatched(".output")
    /\ ArgumentOf(last.line) = "c.json"
    /\ last.before.saved_output_mode = "list"
    /\ last.before.output_mode = "csv"
    /\ state.output_mode = "json"
    /\ state.saved_output_mode = "list"

\* C3 as stated: the slot is populated exactly when the current mode is one that
\* `.output FILE` selected from an extension, and `.output` with no argument
\* restores a saved mode and empties the slot.
C3_SavedIffAutoSelected ==
    /\ state.saved_output_mode # None <=>
          (auto_mode # None /\ state.output_mode = auto_mode)
    /\ ( Dispatched(".output") /\ ArgumentOf(last.line) = None
         /\ last.before.saved_output_mode # None ) =>
          /\ state.output_mode = last.before.saved_output_mode
          /\ state.saved_output_mode = None

(***************************************************************************)
(* Properties of the read loop (SpecRepl).                                 *)
(***************************************************************************)
\* the lines joined by single spaces
RECURSIVE JoinLines(_)
JoinLines(ls) ==
    IF ls = <<>> THEN <<>>
    ELSE IF Len(ls) = 1 THEN ls[1]
    ELSE JoinLines(SubSeq(ls, 1, Len(ls) - 1)) \o << WS >> \o ls[Len(ls)]

\* the step reads a line (the primed `last` describes it)
LineStep == pc = "prompt" /\ last'.ev = "line"

\* C4: while sql_buffer is non-empty a line that begins with `.` is not
\* dispatched: no setting, connection or completer changes, the loop does not
\* quit, and the line is appended after one space; the buffer is handed to the
\* engine and emptied only when its trimmed text ends with `;`.
C4_NoDotCommandWhilePending ==
    [][ ( LineStep /\ sql_buffer # <<>> /\ starts_with_dot(trim(last'.line)) ) =>
          /\ last'.disp # "dot"
          /\ last'.tag \notin { "Quit", "ChangeDb", "Exit" }
          /\ state' = state
          /\ conn' = conn
          /\ editor' = editor
          /\ ret' # "Ok"
          /\ LET text == sql_buffer \o << WS >> \o last'.line
             IN  IF ends_with_semi(trim(text))
                 THEN /\ sql_buffer' = <<>>
                      /\ last'.handed = << trim(text) >>
                 ELSE /\ sql_buffer' = text
                      /\ last'.handed = <<>>
                      /\ pc' = "prompt"
      ]_vars

\* `.quit` entered after `SELECT`: it is text of the pending statement
C4_Witness ==
    /\ last.ev = "line"
    /\ last.line = << ".quit" >>
    /\ last.before.pending
    /\ sql_buffer = << "SELECT", WS, ".quit" >>
    /\ pc = "prompt"

\* the line goes to the statement buffer, not to the dispatcher
BufferedLine(line) == ~( sql_buffer = <<>> /\ starts_with_dot(trim(line)) )

\* C5: the buffer is the lines entered since it was last empty, joined by single
\* spaces, and never holds a complete statement at a prompt; a line hands SQL to
\* the engine exactly when the trimmed joined text then ends with `;`, the text
\* handed over is that trimmed text, once, and the buffer is empty afterwards
\* whatever the engine answers; any other line hands over nothing and leaves
\* the databases alone.
C5_StatementHandedWhenComplete ==
    /\ [](sql_buffer = JoinLines(entered) /\ ~ends_with_semi(trim(sql_buffer)))
    /\ [][ ( LineStep /\ BufferedLine(last'.line) ) =>
             LET text == JoinLines(Append(entered, last'.line))
             IN  IF ends_with_semi(trim(text))
                 THEN /\ last'.handed = << trim(text) >>
                      /\ sql_buffer' = <<>>
                      /\ last'.tag \in { "Continue", "Err" }
                 ELSE /\ last'.handed = <<>>
                      /\ sql_buffer' = text
                      /\ dbs' = dbs
         ]_vars

\* two lines joined into one statement, which the engine rejected
C5_Witness ==
    /\ last.ev = "line"
    /\ last.line = << "SELECT", SEMI >>
    /\ last.handed = << << "SELECT", WS, "SELECT", SEMI >> >>
    /\ last.tag = "Err"
    /\ sql_buffer = <<>>
    /\ pc = "prompt"

\* an error was raised while the last line was serviced
ErrorRaised == last.ev = "line" /\ (last.tag = "Err" \/ last.opened = "failed")

\* C6 as stated: with bail off every error of a line leaves the buffer empty and
\* the loop running; with bail on the first error ends the loop and is returned.
C6_ErrorsHonourBail ==
    ErrorRaised =>
        IF state.bail
        THEN pc = "done" /\ ret = "Err"
        ELSE pc = "prompt" /\ sql_buffer = <<>>

\* C7: an interrupt empties the buffer, so that the next prompt is the primary
\* one, changes no setting, connection, completer or database and leaves the
\* loop running; EOF ends the loop with Ok and touches nothing.
C7_InterruptAndEof ==
    /\ [][ ( pc = "prompt" /\ last'.ev = "interrupt" ) =>
             /\ sql_buffer' = <<>>
             /\ prompt(sql_buffer') = "rsqlite3> "
             /\ pc' = "prompt"
             /\ UNCHANGED <<state, conn, editor, dbs, ret>>
         ]_vars
    /\ [][ ( pc = "prompt" /\ last'.ev = "eof" ) =>
             /\ pc' = "done"
             /\ ret' = "Ok"
             /\ UNCHANGED <<state, conn, editor, dbs, sql_buffer>>
         ]_vars

\* an interrupt that arrived while a statement was pending
C7_Witness ==
    /\ last.ev = "interrupt"
    /\ last.before.pending
    /\ sql_buffer = <<>>
    /\ pc = "prompt"

C10_RefreshOnlyAfterSchemaOrTables ==
    last.refreshed <=>
        \/ last.ev = "start"
        \/ last.opened = "ok"
        \/ Dispatched(".schema")
        \/ Dispatched(".tables")

(***************************************************************************)
(* Properties of `.read` (SpecRead).                                       *)
(***************************************************************************)
\* the statements of a script: its non-empty pieces that are not dot-commands,
\* each with its semicolon
RECURSIVE StatementsOf(_)
StatementsOf(pieces) ==
    IF pieces = <<>> THEN <<>>
    ELSE LET t == trim(Head(pieces))
         IN  (IF t # <<>> /\ ~starts_with_dot(t) THEN << Append(t, SEMI) >> ELSE <<>>)
               \o StatementsOf(Tail(pieces))

IsPrefix(a, b) == Len(a) <= Len(b) /\ a = SubSeq(b, 1, Len(a))

\* the scripts that hold neither `.open` nor `.quit`
PlainScripts == { "ok.sql", "fail.sql", "dot.sql" }

\* C9 as stated: in a script without `.open` and `.quit`, with bail off every
\* statement is executed although a piece failed; with bail on the statements
\* after the failing piece are skipped.
C9_ReadHonoursBail ==
    ( Dispatched(".read") /\ ArgumentOf(last.line) \in PlainScripts ) =>
        LET all == StatementsOf(split_semi(Scripts[ArgumentOf(last.line)]))
        IN  IF state.bail
            THEN IsPrefix(last.handed, all)
            ELSE last.handed = all

(***************************************************************************)
(* lsp.rs: the schema cache of SqlLspService.                              *)
(*                                                                         *)
(* A catalog is what sqlite_master holds: the user tables and the indexes. *)
(* The columns and the CREATE statement of a table are fixed by its name.  *)
(***************************************************************************)
\* the tables and indexes a database may hold, in the order of ORDER BY name
CatalogTables == << "orders", "users" >>
CatalogIndexes == << "idx_users_name", "sqlite_autoindex_orders_1" >>

Range(f) == { f[i] : i \in DOMAIN f }

Catalogs == [tables : SUBSET Range(CatalogTables), indexes : SUBSET Range(CatalogIndexes)]

\* PRAGMA table_info: the columns of a table
TableColumns(t) ==
    CASE t = "users" ->
           << [table |-> "users", name |-> "id", type_ |-> "INTEGER"],
              [table |-> "users", name |-> "name", type_ |-> "TEXT"] >>
      [] t = "orders" ->
           << [table |-> "orders", name |-> "id", type_ |-> "INTEGER"],
              [table |-> "orders", name |-> "user_id", type_ |-> "INTEGER"] >>
      [] OTHER -> <<>>

\* the sql column of sqlite_master for a table
CreateSql(t) == << t, "CREATE TABLE " \o t >>

\* str::starts_with("sqlite_autoindex_") on the index names of the model
is_autoindex(name) == name = "sqlite_autoindex_orders_1"

SqlLspService_new ==
    [cached_tables |-> <<>>, cached_columns |-> <<>>,
     cached_create_sqls |-> <<>>, cached_indexes |-> <<>>]

\* db::get_tables: the names of the tables, ORDER BY name
get_tables(cat) == SelectSeq(CatalogTables, LAMBDA t : t \in cat.tables)

\* the loop over cached_tables (lsp.rs:291-308) from table i on: a table whose
\* get_schema fails is passed over
RECURSIVE collect_schemas(_, _, _, _)
collect_schemas(tables, i, schema_ok, acc) ==
    IF i > Len(tables) THEN acc
    ELSE IF schema_ok[tables[i]]
         THEN collect_schemas(tables, i + 1, schema_ok,
                  [columns |-> acc.columns \o TableColumns(tables[i]),
                   create_sqls |-> Append(acc.create_sqls, CreateSql(tables[i]))])
         ELSE collect_schemas(tables, i + 1, schema_ok, acc)

\* what the database answers to the reads of one refresh: whether the table
\* list, the schema of each table and the index query can be read
CatalogAnswers ==
    [get_tables : BOOLEAN, get_schema : [Range(CatalogTables) -> BOOLEAN], indexes : BOOLEAN]

AllAnswered ==
    [get_tables |-> TRUE, get_schema |-> [t \in Range(CatalogTables) |-> TRUE], indexes |-> TRUE]

\* SqlLspService::refresh_schema: [ok, self]
SqlLspService_refresh_schema(self, cat, ans) ==
    IF ~ans.get_tables
    THEN [ok |-> FALSE, self |-> self]
    ELSE LET tables == get_tables(cat)
             got == collect_schemas(tables, 1, ans.get_schema,
                                    [columns |-> <<>>, create_sqls |-> <<>>])
             self1 == [cached_tables |-> tables,
                       cached_columns |-> got.columns,
                       cached_create_sqls |-> got.create_sqls,
                       cached_indexes |-> <<>>]
         IN  IF ~ans.indexes
             THEN [ok |-> FALSE, self |-> self1]
             ELSE [ok |-> TRUE,
                   self |-> [self1 EXCEPT !.cached_indexes =
                               SelectSeq(CatalogIndexes,
                                         LAMBDA n : n \in cat.indexes /\ ~is_autoindex(n))]]

\* the cache that describes a catalog completely
Snapshot(cat) == SqlLspService_refresh_schema(SqlLspService_new, cat, AllAnswered).self

\* a service over some database, nothing cached yet
CacheStart ==
    /\ ReplStart
    /\ lsp = SqlLspService_new
    /\ catalog \in Catalogs
    /\ call = NoCall

\* a call of refresh_schema; call records the cache before it and the snapshot
\* of the database at that time
RefreshSchema ==
    \E ans \in CatalogAnswers :
    \E r \in { SqlLspService_refresh_schema(lsp, catalog, ans) } :
        /\ lsp' = r.self
        /\ call' = [op |-> "refresh_schema", ok |-> r.ok, before |-> lsp,
                    snapshot |-> Snapshot(catalog)]
        /\ UNCHANGED <<catalog, replvars>>

\* a statement executed on the connection changes the tables or the indexes
CatalogChange ==
    \E cat \in Catalogs :
        /\ cat # catalog
        /\ catalog' = cat
        /\ call' = [op |-> "execute"]
        /\ UNCHANGED <<lsp, replvars>>

NextCache == RefreshSchema \/ CatalogChange

SpecCache == CacheStart /\ [][NextCache]_vars

\* every cached column and create-statement belongs to a cached table
CacheClosed(self) ==
    /\ \A i \in DOMAIN self.cached_columns :
          self.cached_columns[i].table \in Range(self.cached_tables)
    /\ \A i \in DOMAIN self.cached_create_sqls :
          self.cached_create_sqls[i][1] \in Range(self.cached_tables)

\* C11 as stated: after any refresh_schema call, failed ones included, the
\* cache is entirely the cache of before the call or entirely the snapshot of
\* the database at the time of the call, and its columns and create-statements
\* belong to its tables.
C11_CacheNeverHalfWritten ==
    call.op = "refresh_schema" =>
        /\ lsp = call.before \/ lsp = call.snapshot
        /\ CacheClosed(lsp)

(***************************************************************************)
(* lsp.rs: the tokens of a fragment.                                       *)
(*                                                                         *)
(* SQL text is a sequence of lexemes as above; the lexemes of SQL are one  *)
(* whitespace character, a punctuation character, a number, a string       *)
(* literal ("'s'"), a string literal whose closing quote is missing ("'s"),*)
(* or a word.  Two words never stand side by side without a lexeme between *)
(* them, and a text holds at most one unclosed literal.                    *)
(***************************************************************************)
COMMA == ","
LPAREN == "("
RPAREN == ")"
PERIOD == "."
Punctuation == { COMMA, LPAREN, RPAREN, PERIOD, SEMI, "=", "*" }
Numbers == { "1" }
StringLiterals == { "'s'" }
UnclosedLiterals == { "'s" }
\* identifiers written between double quotes, with the name each one holds
QuotedIdentifiers == { "\"q\"", "\"users\"" }
Unquoted(x) == IF x = "\"q\"" THEN "q" ELSE "users"

\* str::to_uppercase on the words of the model that hold lower-case letters
UpperCase ==
    [ w \in { "Users", "a", "b", "c", "from", "i", "id", "n", "name", "nosuch", "o",
              "on", "orders", "q", "select", "t", "u", "user_id", "users", "x" } |->
        CASE w = "Users" -> "USERS" [] w = "a" -> "A" [] w = "b" -> "B" [] w = "c" -> "C"
          [] w = "from" -> "FROM" [] w = "i" -> "I" [] w = "id" -> "ID" [] w = "n" -> "N"
          [] w = "name" -> "NAME" [] w = "nosuch" -> "NOSUCH" [] w = "o" -> "O"
          [] w = "on" -> "ON" [] w = "orders" -> "ORDERS" [] w = "q" -> "Q"
          [] w = "select" -> "SELECT" [] w = "t" -> "T" [] w = "u" -> "U"
          [] w = "user_id" -> "USER_ID" [] w = "users" -> "USERS" [] w = "x" -> "X" ]

to_uppercase(w) == IF w \in DOMAIN UpperCase THEN UpperCase[w] ELSE w

\* Token::Word, Token::Whitespace, ... as [kind, value]
Token(kind, value) == [kind |-> kind, value |-> value]

\* the token of one lexeme
token_of(x) ==
    CASE x = WS -> Token("Whitespace", x)
      [] x = COMMA -> Token("Comma", x)
      [] x = LPAREN -> Token("LParen", x)
      [] x = RPAREN -> Token("RParen", x)
      [] x = PERIOD -> Token("Period", x)
      [] x = SEMI -> Token("SemiColon", x)
      [] x \in { "=", "*" } -> Token("Operator", x)
      [] x \in Numbers -> Token("Number", x)
      [] x \in StringLiterals -> Token("SingleQuotedString", x)
      [] x \in QuotedIdentifiers -> Token("Word", Unquoted(x))
      [] OTHER -> Token("Word", x)

\* Tokenizer::tokenize: Err (unterminated string literal) when the closing quote
\* of a literal is missing, the tokens of the whole text otherwise
tokenize(text) ==
    IF \E i \in DOMAIN text : text[i] \in UnclosedLiterals
    THEN [ok |-> FALSE, tokens |-> <<>>]
    ELSE [ok |-> TRUE, tokens |-> [i \in DOMAIN text |-> token_of(text[i])]]

\* tokenizer.tokenize().unwrap_or_default() (lsp.rs:477, 866)
tokenize_or_default(text) ==
    IF tokenize(text).ok THEN tokenize(text).tokens ELSE <<>>

is_word(tok) == tok.kind = "Word"
is_whitespace(tok) == tok.kind = "Whitespace"

\* w.value.to_uppercase() of a word token, None for any other token
kw_of(tok) == IF is_word(tok) THEN to_uppercase(tok.value) ELSE None

(***************************************************************************)
(* lsp.rs: detect_context.  Positions are 1-based: position i here is      *)
(* index i - 1 of the source.                                              *)
(***************************************************************************)
MAX_SCAN_DEPTH == 10

\* get_prev_token(idx): the position of the last token before position idx + 1
\* that is no whitespace, 0 when there is none
RECURSIVE get_prev_token(_, _)
get_prev_token(tokens, idx) ==
    IF idx = 0 THEN 0
    ELSE IF ~is_whitespace(tokens[idx]) THEN idx
    ELSE get_prev_token(tokens, idx - 1)

\* the closure is_create_index_context, scanning from position i down
RECURSIVE create_index_scan(_, _, _)
create_index_scan(tokens, i, found_index) ==
    IF i = 0 THEN FALSE
    ELSE LET kw == kw_of(tokens[i])
         IN  CASE kw = "INDEX" -> create_index_scan(tokens, i - 1, TRUE)
               [] kw = "CREATE" /\ found_index -> TRUE
               [] kw \in { "JOIN", "FROM", "SELECT" } -> FALSE
               [] OTHER -> create_index_scan(tokens, i - 1, found_index)

is_create_index_context(tokens) == create_index_scan(tokens, Len(tokens), FALSE)

\* the closure is_insert_into_column_list_context, scanning from position i down
RECURSIVE insert_into_scan(_, _, _, _, _)
insert_into_scan(tokens, i, paren_depth, found_lparen, found_into) ==
    IF i = 0 THEN FALSE
    ELSE LET tok == tokens[i]
             kw == kw_of(tok)
         IN  CASE tok.kind = "RParen" ->
                    insert_into_scan(tokens, i - 1, paren_depth + 1, found_lparen, found_into)
               [] tok.kind = "LParen" ->
                    IF paren_depth > 0
                    THEN insert_into_scan(tokens, i - 1, paren_depth - 1, found_lparen, found_into)
                    ELSE insert_into_scan(tokens, i - 1, paren_depth, TRUE, found_into)
               [] is_word(tok) /\ found_lparen ->
                    CASE kw = "INTO" ->
                           insert_into_scan(tokens, i - 1, paren_depth, found_lparen, TRUE)
                      [] kw = "INSERT" /\ found_into -> TRUE
                      [] kw \in { "VALUES", "SELECT", "FROM" } -> FALSE
                      [] OTHER ->
                           insert_into_scan(tokens, i - 1, paren_depth, found_lparen, found_into)
               [] OTHER ->
                    insert_into_scan(tokens, i - 1, paren_depth, found_lparen, found_into)

is_insert_into_column_list_context(tokens) ==
    insert_into_scan(tokens, Len(tokens), 0, FALSE, FALSE)

\* the closure is_drop_index_context, scanning from position i down
RECURSIVE drop_index_scan(_, _, _)
drop_index_scan(tokens, i, found_index) ==
    IF i = 0 THEN FALSE
    ELSE LET kw == kw_of(tokens[i])
         IN  CASE kw = "INDEX" -> drop_index_scan(tokens, i - 1, TRUE)
               [] kw = "DROP" /\ found_index -> TRUE
               [] kw \in { "IF", "EXISTS" } -> drop_index_scan(tokens, i - 1, found_index)
               [] kw \in { "CREATE", "FROM", "SELECT" } -> FALSE
               [] OTHER -> drop_index_scan(tokens, i - 1, found_index)

is_drop_index_context(tokens) == drop_index_scan(tokens, Len(tokens), FALSE)

\* the inner loop of is_inside_create_table (lsp.rs:773-788): the position of
\* TABLE when it is the first token after CREATE that is no whitespace, else 0
RECURSIVE table_after_create(_, _, _)
table_after_create(tokens, j, current) ==
    IF j >= current THEN 0
    ELSE IF is_whitespace(tokens[j]) THEN table_after_create(tokens, j + 1, current)
    ELSE IF kw_of(tokens[j]) = "TABLE" THEN j
    ELSE 0

\* the outer loop (lsp.rs:769-791) from position i on
RECURSIVE last_create_table(_, _, _, _)
last_create_table(tokens, i, current, found) ==
    IF i >= current THEN found
    ELSE IF kw_of(tokens[i]) = "CREATE" /\ table_after_create(tokens, i + 1, current) # 0
         THEN last_create_table(tokens, i + 1, current, table_after_create(tokens, i + 1, current))
         ELSE last_create_table(tokens, i + 1, current, found)

\* the count of parentheses (lsp.rs:797-810) over positions i..last: [depth, open_found]
RECURSIVE paren_count(_, _, _, _, _)
paren_count(tokens, i, last_pos, depth, open_found) ==
    IF i > last_pos THEN [depth |-> depth, open_found |-> open_found]
    ELSE CASE tokens[i].kind = "LParen" -> paren_count(tokens, i + 1, last_pos, depth + 1, TRUE)
           [] tokens[i].kind = "RParen" ->
                paren_count(tokens, i + 1, last_pos, IF depth > 0 THEN depth - 1 ELSE depth,
                            open_found)
           [] OTHER -> paren_count(tokens, i + 1, last_pos, depth, open_found)

\* SqlLspService::is_inside_create_table, current the position of the token
is_inside_create_table(tokens, current) ==
    LET start == last_create_table(tokens, 1, current, 0)
    IN  IF start = 0 THEN FALSE
        ELSE LET end_check == IF current <= Len(tokens) THEN current ELSE Len(tokens)
                 c == paren_count(tokens, start + 1, end_check, 0, FALSE)
             IN  c.open_found /\ c.depth = 1

\* the dispatch on the last token when it is a word (lsp.rs:579-618); None
\* when it gives no verdict
word_dispatch(tokens, kw) ==
    CASE kw \in { "FROM", "JOIN", "UPDATE", "INTO", "TABLE" } -> "TableContext"
      [] kw = "ON" ->
           IF is_create_index_context(tokens) THEN "TableContext" ELSE "ColumnContext"
      [] kw \in { "SELECT", "WHERE", "SET", "BY", "HAVING" } -> "ColumnContext"
      [] kw = "INSERT" -> "InsertContext"
      [] kw \in { "AND", "OR" } -> "ColumnContext"
      [] OTHER -> IF is_drop_index_context(tokens) THEN "IndexContext" ELSE None

\* the backward search of the comma arm (lsp.rs:637-657) from position i down;
\* None when no keyword of the list is met
RECURSIVE comma_scan(_, _)
comma_scan(tokens, i) ==
    IF i = 0 THEN None
    ELSE LET kw == kw_of(tokens[i])
         IN  CASE kw \in { "SELECT", "WHERE", "GROUP", "ORDER" } -> "ColumnContext"
               [] kw \in { "FROM", "UPDATE" } -> "TableContext"
               [] kw = "VALUES" -> "Default"
               [] OTHER -> comma_scan(tokens, i - 1)

\* the comma arm (lsp.rs:619-658)
comma_dispatch(tokens) ==
    IF is_create_index_context(tokens) THEN "ColumnContext"
    ELSE IF is_insert_into_column_list_context(tokens) THEN "ColumnContext"
    ELSE comma_scan(tokens, Len(tokens) - 1)

\* the left-parenthesis arm (lsp.rs:659-676)
lparen_dispatch(tokens) ==
    IF is_create_index_context(tokens) THEN "ColumnContext"
    ELSE IF is_insert_into_column_list_context(tokens) THEN "ColumnContext"
    ELSE None

\* the full reverse scan (lsp.rs:683-763) from position i down
RECURSIVE reverse_scan(_, _, _, _)
reverse_scan(tokens, i, scan_count, paren_depth) ==
    IF i = 0 THEN "Default"
    ELSE IF is_whitespace(tokens[i]) THEN reverse_scan(tokens, i - 1, scan_count, paren_depth)
    ELSE IF scan_count + 1 > MAX_SCAN_DEPTH THEN "Default"
    ELSE LET tok == tokens[i]
             kw == kw_of(tok)
             next(d) == reverse_scan(tokens, i - 1, scan_count + 1, d)
         IN  CASE tok.kind = "RParen" -> next(paren_depth + 1)
               [] tok.kind = "LParen" ->
                    IF paren_depth > 0 THEN next(paren_depth - 1)
                    ELSE IF is_create_index_context(tokens) THEN "ColumnContext"
                    ELSE IF is_insert_into_column_list_context(tokens) THEN "ColumnContext"
                    ELSE next(paren_depth)
               [] is_word(tok) ->
                    CASE kw \in { "FROM", "JOIN", "UPDATE", "INTO", "TABLE" } -> "TableContext"
                      [] kw = "ON" ->
                           IF is_create_index_context(tokens)
                           THEN IF paren_depth > 0 THEN "ColumnContext" ELSE "TableContext"
                           ELSE "ColumnContext"
                      [] kw \in { "SELECT", "WHERE", "SET", "BY", "HAVING" } -> "ColumnContext"
                      [] kw \in { "AND", "OR" } -> "ColumnContext"
                      [] kw = "CREATE" -> "Default"
                      [] kw \in { "LIMIT", "OFFSET", "UNION", "EXCEPT", "INTERSECT" } -> "Default"
                      [] OTHER ->
                           IF is_inside_create_table(tokens, i) THEN "TypeContext"
                           ELSE next(paren_depth)
               [] OTHER -> next(paren_depth)

\* detect_context on the tokens of the text before the cursor
classify_tokens(tokens) ==
    IF tokens = <<>> THEN "Default"
    ELSE LET last_pos == get_prev_token(tokens, Len(tokens))
             early == IF last_pos = 0 THEN None
                      ELSE CASE is_word(tokens[last_pos]) ->
                                  word_dispatch(tokens, kw_of(tokens[last_pos]))
                             [] tokens[last_pos].kind = "Comma" -> comma_dispatch(tokens)
                             [] tokens[last_pos].kind = "LParen" -> lparen_dispatch(tokens)
                             [] OTHER -> None
         IN  IF early # None THEN early
             ELSE reverse_scan(tokens, Len(tokens), 0, 0)

\* SqlLspService::detect_context; offset counts lexemes
detect_context(text, offset) ==
    classify_tokens(tokenize_or_default(SubSeq(text, 1, IF offset < Len(text) THEN offset ELSE Len(text))))

(***************************************************************************)
(* lsp.rs: extract_tables_aliases.  The HashMap is a function from the     *)
(* names to the tables.                                                    *)
(***************************************************************************)
EmptyMap == <<>>

\* HashMap::insert
insert(m, k, v) == [x \in DOMAIN m \cup { k } |-> IF x = k THEN v ELSE m[x]]

\* the first position from j on whose token is no whitespace, Len + 1 when none
RECURSIVE skip_whitespace(_, _)
skip_whitespace(tokens, j) ==
    IF j > Len(tokens) THEN j
    ELSE IF is_whitespace(tokens[j]) THEN skip_whitespace(tokens, j + 1)
    ELSE j

\* the word at position j, None when j is past the end or holds no word
word_at(tokens, j) ==
    IF j <= Len(tokens) /\ is_word(tokens[j]) THEN tokens[j].value ELSE None

\* the closure is_create_index_at(pos), scanning from position j down
RECURSIVE create_index_at_scan(_, _, _)
create_index_at_scan(tokens, j, found_index) ==
    IF j = 0 THEN FALSE
    ELSE LET kw == kw_of(tokens[j])
         IN  CASE kw = "INDEX" -> create_index_at_scan(tokens, j - 1, TRUE)
               [] kw = "CREATE" /\ found_index -> TRUE
               [] kw \in { "FROM", "JOIN", "SELECT", "WHERE" } -> FALSE
               [] OTHER -> create_index_at_scan(tokens, j - 1, found_index)

is_create_index_at(tokens, pos) == create_index_at_scan(tokens, pos - 1, FALSE)

\* the test of lsp.rs:908-918: the token before position i that is no
\* whitespace is the word INSERT
is_insert_before(tokens, i) ==
    LET j == get_prev_token(tokens, i - 1)
    IN  j # 0 /\ kw_of(tokens[j]) = "INSERT"

\* the words after which an implicit alias is not taken (lsp.rs:974-978)
AliasDenylist ==
    { "WHERE", "JOIN", "INNER", "LEFT", "RIGHT", "FULL", "CROSS", "ON", "ORDER", "GROUP",
      "LIMIT", "HAVING", "SET", "ASC", "DESC", "AND", "OR" }

\* the alias that follows the table at position j, None when there is none
\* (lsp.rs:949-985)
alias_after(tokens, j) ==
    LET k == skip_whitespace(tokens, j + 1)
        w2 == word_at(tokens, k)
    IN  IF w2 = None THEN None
        ELSE IF to_uppercase(w2) = "AS"
             THEN word_at(tokens, skip_whitespace(tokens, k + 1))
             ELSE IF to_uppercase(w2) \notin AliasDenylist THEN w2 ELSE None

\* the map after the token at position i has been looked at (lsp.rs:889-993)
bind_at(tokens, i, aliases) ==
    LET kw == kw_of(tokens[i])
        j == skip_whitespace(tokens, i + 1)
        table_name == word_at(tokens, j)
    IN  CASE kw = "ON" /\ is_create_index_at(tokens, i) ->
               IF table_name # None THEN insert(aliases, table_name, table_name) ELSE aliases
          [] kw = "INTO" ->
               IF is_insert_before(tokens, i) /\ table_name # None
               THEN insert(aliases, table_name, table_name)
               ELSE aliases
          [] kw \in { "FROM", "JOIN" } ->
               IF table_name = None THEN aliases
               ELSE LET with_table == insert(aliases, table_name, table_name)
                        alias == alias_after(tokens, j)
                    IN  IF alias # None THEN insert(with_table, alias, table_name)
                        ELSE with_table
          [] OTHER -> aliases

\* the loop of extract_tables_aliases from position i on
RECURSIVE extract_from(_, _, _)
extract_from(tokens, i, aliases) ==
    IF i > Len(tokens) THEN aliases
    ELSE extract_from(tokens, i + 1, bind_at(tokens, i, aliases))

\* SqlLspService::extract_tables_aliases
extract_tables_aliases(text) == extract_from(tokenize_or_default(text), 1, EmptyMap)

(***************************************************************************)
(* Calls of detect_context and extract_tables_aliases on fragments.        *)
(***************************************************************************)
\* the text of a sequence of lexemes that are no whitespace: one space between
\* two of them
RECURSIVE Spaced(_)
Spaced(ts) ==
    IF Len(ts) <= 1 THEN ts
    ELSE << Head(ts), WS >> \o Spaced(Tail(ts))

\* the lexemes of a text that are no whitespace
Meaningful(text) == SelectSeq(text, LAMBDA x : x # WS)

\* what may stand before the last tokens of a fragment
Heads ==
    { <<>>,
      << "SELECT" >>,
      << "SELECT", "a", "FROM", "t", "WHERE" >>,
      << "SELECT", "*", "FROM" >>,
      << "UPDATE", "t", "SET" >>,
      << "CREATE", "INDEX", "i" >>,
      << "CREATE", "TABLE", "t", LPAREN >>,
      << "INSERT", "INTO", "t", LPAREN >>,
      << "DROP", "INDEX" >>,
      << "VALUES" >> }

\* runs of MAX_SCAN_DEPTH tokens at the end of a fragment
Windows ==
    { << "a", COMMA, "a", COMMA, "a", COMMA, "a", COMMA, "a", COMMA >>,
      << "a", "=", "1", "*", "1", "*", "1", "*", "1", "ON" >>,
      << "a", "=", "1", "*", "1", "*", "1", "*", "1", "*" >>,
      << "a", "*", "1", "*", "1", "*", "1", "*", "1", "b" >>,
      << "x", PERIOD, "a", "=", "1", "*", "1", "*", "1", LPAREN >>,
      << "a", "=", LPAREN, "1", "*", "1", RPAREN, "*", "1", COMMA >>,
      << "t", "WHERE", "a", "=", "1", "AND", "b", "=", "1", COMMA >>,
      << "t", "a", "JOIN", "u", "b", "ON", "a", PERIOD, "id", "=" >> }

\* short fragments: lists, aliases and literals that lack their closing quote
ShortFragments ==
    { << "UPDATE", "t", "SET", "a", "=", "1", COMMA >>,
      << "SELECT", "a", COMMA >>,
      << "SELECT", "a", "FROM", "t", COMMA >>,
      << "SELECT", "a", "FROM", "t", "WHERE", "a", "=", "1", COMMA >>,
      << "SELECT", "a", "FROM", "t", "GROUP", "BY", "a", COMMA >>,
      << "SELECT", "a", "FROM", "t", "ORDER", "BY", "a", COMMA >>,
      << "CREATE", "INDEX", "i", "ON", "t", LPAREN, "a", COMMA >>,
      << "INSERT", "INTO", "t", LPAREN, "a", COMMA >>,
      << "INSERT", "INTO", "t", "VALUES", LPAREN, "1", COMMA >>,
      << "SELECT", "a", "FROM", "t", "WHERE", "a", "=", "'s" >>,
      << "SELECT", "a", "FROM", "t", "x", "WHERE", "x", PERIOD, "a", "=", "'s'" >>,
      << "SELECT", "*", "FROM", "t", "JOIN", "u", "ON", "'s" >>,
      << "'s" >>,
      << "SELECT", "*", "FROM", "t" >>,
      << "SELECT", "*", "FROM", "t", "JOIN", "t" >>,
      << "SELECT", "*", "FROM", "t", "x", "JOIN", "t", "x" >>,
      << "SELECT", "*", "FROM", "t", "AS", "x", "JOIN", "u", "b", "ON" >>,
      << "SELECT", "*", "FROM", "t", "JOIN", "u", "t" >>,
      << "SELECT", "*", "from", "t", "WHERE" >>,
      << "INSERT", "INTO", "t", "SELECT", "*", "FROM", "u" >>,
      << "CREATE", "INDEX", "i", "ON", "t", LPAREN, "a", RPAREN >>,
      << "DROP", "INDEX", "IF", "EXISTS" >>,
      << "CREATE", "TABLE", "t", LPAREN, "a" >>,
      << "DROP", "INDEX" >>,
      << "DROP", "INDEX", "IF" >>,
      << "DROP", "INDEX", "i" >>,
      << "DROP", "INDEX", "IF", "EXISTS", "i" >>,
      << "DROP", "INDEX", "i", SEMI, "DELETE" >>,
      << "DROP", "INDEX", "i", SEMI, "UPDATE", "t", "SET", "a", "=", "b" >>,
      << "DROP", "INDEX", "i", SEMI, "SELECT", "a" >>,
      << "DROP", "TABLE", "t" >>,
      << "CREATE", "TABLE", "t", LPAREN, "a", "INTEGER", COMMA, "b" >>,
      << "CREATE", "TABLE", "t", LPAREN, "a", "CHECK", LPAREN, "a" >>,
      << "CREATE", "TABLE", "t", LPAREN, "a", "DEFAULT", LPAREN, "1", RPAREN, "b" >>,
      << "CREATE", "TABLE", "t", LPAREN, "a", RPAREN, "b" >>,
      << "CREATE", "TABLE", "t" >> }

Fragments ==
    { Spaced(h \o w) : h \in Heads, w \in Windows }
      \cup { Spaced(f) : f \in ShortFragments }
      \cup { Append(Spaced(f), WS) : f \in ShortFragments }

\* a fragment is given
FragmentStart ==
    /\ ReplStart
    /\ lsp = SqlLspService_new
    /\ catalog = [tables |-> {}, indexes |-> {}]
    /\ call \in [op : { "input" }, text : Fragments]

\* detect_context with the cursor at the end of the fragment
DetectContext ==
    /\ call.op = "input"
    /\ call' = [op |-> "detect_context", text |-> call.text,
                result |-> detect_context(call.text, Len(call.text))]
    /\ UNCHANGED <<lsp, catalog, replvars>>

\* extract_tables_aliases on the fragment
ExtractTablesAliases ==
    /\ call.op = "input"
    /\ call' = [op |-> "extract_tables_aliases", text |-> call.text,
                result |-> extract_tables_aliases(call.text)]
    /\ UNCHANGED <<lsp, catalog, replvars>>

NextFragment == DetectContext \/ ExtractTablesAliases

SpecFragment == FragmentStart /\ [][NextFragment]_vars

(***************************************************************************)
(* Properties of the classifier and of the alias resolver (SpecFragment).  *)
(***************************************************************************)
\* the last n elements of a sequence (all of it when it is shorter)
LastN(ts, n) == IF Len(ts) <= n THEN ts ELSE SubSeq(ts, Len(ts) - n + 1, Len(ts))

\* what precedes the last n elements
BeforeLastN(ts, n) == IF Len(ts) <= n THEN <<>> ELSE SubSeq(ts, 1, Len(ts) - n)

\* the number of left parentheses of ts that ts does not close
RECURSIVE OpenParens(_, _, _)
OpenParens(ts, i, depth) ==
    IF i > Len(ts) THEN depth
    ELSE CASE ts[i] = LPAREN -> OpenParens(ts, i + 1, depth + 1)
           [] ts[i] = RPAREN -> OpenParens(ts, i + 1, IF depth > 0 THEN depth - 1 ELSE 0)
           [] OTHER -> OpenParens(ts, i + 1, depth)

\* the fragment holds at least a full window and no parenthesis opened before
\* the window is open when the window begins
WindowedFragment(text) ==
    /\ Len(Meaningful(text)) >= MAX_SCAN_DEPTH
    /\ OpenParens(BeforeLastN(Meaningful(text), MAX_SCAN_DEPTH), 1, 0) = 0

\* C12 as stated: two prefixes whose last 10 tokens (whitespace aside) are the
\* same, no parenthesis opened before the window being still open, get the same
\* classification whatever precedes the window.
C12_ClassificationLocal ==
    ( call.op = "detect_context" /\ WindowedFragment(call.text) ) =>
        \A other \in Fragments :
            ( /\ WindowedFragment(other)
              /\ LastN(Meaningful(other), MAX_SCAN_DEPTH)
                   = LastN(Meaningful(call.text), MAX_SCAN_DEPTH) )
            => detect_context(other, Len(other)) = call.result

\* the position holds a keyword after which the fragment names a table: FROM,
\* JOIN, INTO that follows INSERT, or ON that follows CREATE ... INDEX in the
\* same statement; and the next token that is no whitespace is a word
NamesTableAt(toks, i) ==
    /\ word_at(toks, skip_whitespace(toks, i + 1)) # None
    /\ \/ kw_of(toks[i]) \in { "FROM", "JOIN" }
       \/ /\ kw_of(toks[i]) = "INTO"
          /\ get_prev_token(toks, i - 1) # 0
          /\ kw_of(toks[get_prev_token(toks, i - 1)]) = "INSERT"
       \/ /\ kw_of(toks[i]) = "ON"
          /\ \E p \in 1..(i - 1) : \E q \in (p + 1)..(i - 1) :
                /\ kw_of(toks[p]) = "CREATE"
                /\ kw_of(toks[q]) = "INDEX"
                /\ \A r \in (p + 1)..(i - 1) :
                      kw_of(toks[r]) \notin { "SELECT", "FROM", "JOIN", "WHERE" }

\* the tables the fragment names
NamedTables(text) ==
    LET toks == [i \in DOMAIN text |-> token_of(text[i])]
    IN  { word_at(toks, skip_whitespace(toks, i + 1)) : i \in { j \in DOMAIN toks : NamesTableAt(toks, j) } }

\* the fragment has no literal that lacks its closing quote
Tokenizable(text) == \A i \in DOMAIN text : text[i] \notin UnclosedLiterals

\* C15 as stated: every table named after FROM, JOIN, INSERT INTO or
\* CREATE INDEX ... ON is bound to itself in the map, and naming once more a
\* table the fragment already names leaves the map as it is.
C15_AliasBindingsStable ==
    ( call.op = "extract_tables_aliases" /\ Tokenizable(call.text) ) =>
        \A t \in NamedTables(call.text) :
            /\ t \in DOMAIN call.result
            /\ call.result[t] = t
            /\ extract_tables_aliases(call.text \o << WS, "JOIN", WS, t >>) = call.result

\* the text ends, trailing whitespace aside, in a literal that lacks its quote
EndsUnclosed(text) ==
    /\ Meaningful(text) # <<>>
    /\ Meaningful(text)[Len(Meaningful(text))] \in UnclosedLiterals
    /\ Tokenizable(BeforeLastN(Meaningful(text), 1))

\* the text up to the literal that lacks its quote
ValidPart(text) ==
    SubSeq(text, 1, (CHOOSE i \in DOMAIN text : text[i] \in UnclosedLiterals) - 1)

\* C16 as stated: when the text ends in a lexeme the tokenizer cannot complete,
\* classification and alias extraction give what the valid tokens before it
\* give, the lexeme being dropped or taken for a trailing word.
C16_TruncatedInputKeepsContext ==
    EndsUnclosed(call.text) =>
        LET valid == ValidPart(call.text)
            worded == Append(valid, "s")
        IN  /\ call.op = "detect_context" =>
                 call.result \in { detect_context(valid, Len(valid)),
                                   detect_context(worded, Len(worded)) }
            /\ call.op = "extract_tables_aliases" =>
                 call.result \in { extract_tables_aliases(valid),
                                   extract_tables_aliases(worded) }

\* the keywords of the single-token dispatch and the context each one gives
TableKeywords == { "FROM", "JOIN", "UPDATE", "INTO", "TABLE" }
ColumnKeywords == { "SELECT", "WHERE", "SET", "BY", "HAVING", "AND", "OR" }

\* the positions of the text that hold a clause keyword
GoverningAt(text) ==
    { i \in DOMAIN text : to_uppercase(text[i]) \in TableKeywords \cup ColumnKeywords }

\* the last token of the text that is no whitespace is a comma, and the text is
\* no CREATE and no INSERT statement
CommaInList(text) ==
    /\ Tokenizable(text)
    /\ Meaningful(text) # <<>>
    /\ Meaningful(text)[Len(Meaningful(text))] = COMMA
    /\ \A i \in DOMAIN text : to_uppercase(text[i]) \notin { "CREATE", "INSERT" }
    /\ GoverningAt(text) # {}

\* C20 as stated: after a comma outside a CREATE INDEX or INSERT INTO column
\* list the classification is the one the nearest preceding clause keyword
\* gives: ColumnCtx in a SET, SELECT, WHERE, GROUP BY or ORDER BY list, TableCtx
\* in a FROM list.
C20_CommaFollowsGoverningClause ==
    ( call.op = "detect_context" /\ CommaInList(call.text) ) =>
        LET nearest == CHOOSE i \in GoverningAt(call.text) :
                          \A j \in GoverningAt(call.text) : j <= i
        IN  call.result = IF to_uppercase(call.text[nearest]) \in TableKeywords
                          THEN "TableContext" ELSE "ColumnContext"

(***************************************************************************)
(* Properties of the classifier in DROP INDEX and CREATE TABLE statements  *)
(* (SpecFragment).                                                         *)
(***************************************************************************)
\* the lexemes of a text that are no whitespace, words in upper case
Upper(ts) == [i \in DOMAIN ts |-> to_uppercase(ts[i])]

\* ts ends with the given lexemes
EndsWith(ts, tail) ==
    Len(ts) >= Len(tail) /\ SubSeq(ts, Len(ts) - Len(tail) + 1, Len(ts)) = tail

\* ts is DROP INDEX, DROP INDEX IF or DROP INDEX IF EXISTS at its end
AfterDropIndex(ts) ==
    \/ EndsWith(ts, << "DROP", "INDEX" >>)
    \/ EndsWith(ts, << "DROP", "INDEX", "IF" >>)
    \/ EndsWith(ts, << "DROP", "INDEX", "IF", "EXISTS" >>)

\* the cursor is where the name of the index goes: right after DROP INDEX
\* [IF [EXISTS]], or at the end of the word that follows it
IndexNamePosition(text) ==
    LET ts == Upper(Meaningful(text))
    IN  \/ AfterDropIndex(ts)
        \/ /\ text # <<>> /\ is_word(token_of(text[Len(text)]))
           /\ ts[Len(ts)] \notin { "IF", "EXISTS", "INDEX" }
           /\ AfterDropIndex(SubSeq(ts, 1, Len(ts) - 1))

\* after the DROP INDEX of the text comes a semicolon: the cursor is in a later
\* statement
InLaterStatement(text) ==
    LET ts == Upper(Meaningful(text))
    IN  \E i, j \in DOMAIN ts : i < j /\ ts[i] = "INDEX" /\ ts[j] = SEMI

\* C21: the cursor where the name of the index of a DROP INDEX goes is
\* classified IndexContext, and a cursor in a later statement of the text never is
C21_IndexContextOnlyInDropIndex ==
    ( call.op = "detect_context" /\ Tokenizable(call.text) ) =>
        /\ IndexNamePosition(call.text) => call.result = "IndexContext"
        /\ InLaterStatement(call.text) => call.result # "IndexContext"

\* the position in ts of the TABLE of the latest CREATE TABLE, 0 when none
LatestCreateTable(ts) ==
    LET at == { i \in DOMAIN ts : i > 1 /\ ts[i] = "TABLE" /\ ts[i - 1] = "CREATE" }
    IN  IF at = {} THEN 0 ELSE CHOOSE i \in at : \A j \in at : j <= i

\* the left parentheses open at the cursor, counted from the latest CREATE
\* TABLE of the text; 0 when the text has none
OpenSinceCreateTable(text) ==
    LET ts == Upper(Meaningful(text))
        start == LatestCreateTable(ts)
    IN  IF start = 0 THEN 0 ELSE OpenParens(SubSeq(ts, start + 1, Len(ts)), 1, 0)

\* C22: TypeContext is returned only with exactly one parenthesis open at the
\* cursor since the latest CREATE TABLE
C22_TypeContextNeedsOneOpenParen ==
    ( call.op = "detect_context" /\ Tokenizable(call.text) /\ call.result = "TypeContext" )
    => OpenSinceCreateTable(call.text) = 1

(***************************************************************************)
(* lsp.rs: completion.  Offsets count lexemes: the cursor stands between   *)
(* two lexemes.  The prefixes typed in the model are empty, one letter, or *)
(* a whole column or table name.                                           *)
(***************************************************************************)
\* get_sql_keywords
SqlKeywords ==
    << "SELECT", "FROM", "WHERE", "INSERT", "INTO", "VALUES", "UPDATE", "SET",
       "DELETE", "CREATE", "TABLE", "DROP", "ALTER", "INDEX", "ON", "PRIMARY", "KEY",
       "FOREIGN", "REFERENCES", "UNIQUE", "NOT", "NULL", "DEFAULT", "CHECK", "AS",
       "JOIN", "INNER", "LEFT", "RIGHT", "OUTER", "CROSS", "GROUP", "BY", "HAVING",
       "ORDER", "LIMIT", "OFFSET", "UNION", "ALL", "DISTINCT", "AND", "OR", "IN",
       "BETWEEN", "LIKE", "GLOB", "CASE", "WHEN", "THEN", "ELSE", "END", "EXISTS",
       "PRAGMA", "BEGIN", "COMMIT", "ROLLBACK", "TRANSACTION", "SAVEPOINT", "RELEASE",
       "ATTACH", "DETACH", "DATABASE", "TEMPORARY", "TEMP", "VIEW", "TRIGGER", "IF",
       "AUTOINCREMENT", "EXPLAIN", "ASC", "DESC", "COLLATE", "NOCASE", "BINARY",
       "RTRIM", "ESCAPE", "ISNULL", "NOTNULL", "TRUE", "FALSE" >>

\* the names of get_sql_functions
SqlFunctions ==
    << "COUNT", "SUM", "AVG", "MIN", "MAX", "ABS", "COALESCE", "IFNULL", "NULLIF",
       "LENGTH", "SUBSTR", "UPPER", "LOWER", "TRIM", "LTRIM", "RTRIM", "REPLACE",
       "INSTR", "PRINTF", "TYPEOF", "ROUND", "RANDOM", "DATETIME", "DATE", "TIME",
       "STRFTIME", "JULIANDAY", "HEX", "QUOTE", "CAST", "GLOB", "LIKE", "GROUP_CONCAT",
       "TOTAL", "JSON", "JSON_EXTRACT", "JSON_ARRAY", "JSON_OBJECT" >>

\* get_sql_types
SqlTypes ==
    << "TEXT", "INTEGER", "REAL", "BLOB", "NUMERIC", "VARCHAR", "CHAR", "BOOLEAN",
       "DATETIME", "DATE", "TIME", "FLOAT", "DOUBLE", "INT", "BIGINT", "SMALLINT",
       "TINYINT" >>

\* the keywords offered after a table name (lsp.rs:1085-1088)
PostTableKeywords ==
    << "WHERE", "JOIN", "ON", "GROUP", "ORDER", "LIMIT", "HAVING", "INNER", "LEFT",
       "RIGHT", "OUTER", "CROSS", "AS", "SET", "VALUES", "SELECT" >>

\* the keywords offered after a column expression (lsp.rs:1154)
PostColumnKeywords ==
    << "FROM", "AS", "WHERE", "GROUP", "ORDER", "LIMIT" >>

\* the constraint keywords offered with the types (lsp.rs:1169-1179)
ConstraintKeywords ==
    << "PRIMARY", "KEY", "NOT", "NULL", "DEFAULT", "REFERENCES", "UNIQUE", "CHECK",
       "AUTOINCREMENT" >>

\* the keywords offered with the index names (lsp.rs:1200)
IndexKeywords ==
    << "IF", "EXISTS" >>

\* str::to_lowercase on the words of the model that hold upper-case letters
LowerCase ==
    [ w \in { "ABS", "ALL", "ALTER", "AND", "AS", "ASC", "ATTACH", "AUTOINCREMENT",
              "AVG", "BEGIN", "BETWEEN", "BIGINT", "BINARY", "BLOB", "BOOLEAN", "BY",
              "CASE", "CAST", "CHAR", "CHECK", "COALESCE", "COLLATE", "COMMIT",
              "COUNT", "CREATE", "CROSS", "DATABASE", "DATE", "DATETIME", "DEFAULT",
              "DELETE", "DESC", "DETACH", "DISTINCT", "DOUBLE", "DROP", "ELSE", "END",
              "ESCAPE", "EXISTS", "EXPLAIN", "FALSE", "FLOAT", "FOREIGN", "FROM",
              "GLOB", "GROUP", "GROUP_CONCAT", "HAVING", "HEX", "I", "IF", "IFNULL",
              "IN", "INDEX", "INNER", "INSERT", "INSTR", "INT", "INTEGER", "INTO",
              "ISNULL", "JOIN", "JSON", "JSON_ARRAY", "JSON_EXTRACT", "JSON_OBJECT",
              "JULIANDAY", "KEY", "LEFT", "LENGTH", "LIKE", "LIMIT", "LOWER", "LTRIM",
              "MAX", "MIN", "N", "NOCASE", "NOT", "NOTNULL", "NULL", "NULLIF",
              "NUMERIC", "OFFSET", "ON", "OR", "ORDER", "OUTER", "PRAGMA", "PRIMARY",
              "PRINTF", "Q", "QUOTE", "RANDOM", "REAL", "REFERENCES", "RELEASE",
              "REPLACE", "RIGHT", "ROLLBACK", "ROUND", "RTRIM", "SAVEPOINT", "SELECT",
              "SET", "SMALLINT", "STRFTIME", "SUBSTR", "SUM", "TABLE", "TEMP",
              "TEMPORARY", "TEXT", "THEN", "TIME", "TINYINT", "TOTAL", "TRANSACTION",
              "TRIGGER", "TRIM", "TRUE", "TYPEOF", "UNION", "UNIQUE", "UPDATE",
              "UPPER", "USERS", "Users", "VALUES", "VARCHAR", "VIEW", "WHEN", "WHERE",
              "X" } |->
        CASE w = "ABS" -> "abs" [] w = "ALL" -> "all" [] w = "ALTER" -> "alter"
          [] w = "AND" -> "and" [] w = "AS" -> "as" [] w = "ASC" -> "asc"
          [] w = "ATTACH" -> "attach" [] w = "AUTOINCREMENT" -> "autoincrement"
          [] w = "AVG" -> "avg" [] w = "BEGIN" -> "begin" [] w = "BETWEEN" -> "between"
          [] w = "BIGINT" -> "bigint" [] w = "BINARY" -> "binary" [] w = "BLOB" -> "blob"
          [] w = "BOOLEAN" -> "boolean" [] w = "BY" -> "by" [] w = "CASE" -> "case"
          [] w = "CAST" -> "cast" [] w = "CHAR" -> "char" [] w = "CHECK" -> "check"
          [] w = "COALESCE" -> "coalesce" [] w = "COLLATE" -> "collate"
          [] w = "COMMIT" -> "commit" [] w = "COUNT" -> "count"
          [] w = "CREATE" -> "create" [] w = "CROSS" -> "cross"
          [] w = "DATABASE" -> "database" [] w = "DATE" -> "date"
          [] w = "DATETIME" -> "datetime" [] w = "DEFAULT" -> "default"
          [] w = "DELETE" -> "delete" [] w = "DESC" -> "desc" [] w = "DETACH" -> "detach"
          [] w = "DISTINCT" -> "distinct" [] w = "DOUBLE" -> "double"
          [] w = "DROP" -> "drop" [] w = "ELSE" -> "else" [] w = "END" -> "end"
          [] w = "ESCAPE" -> "escape" [] w = "EXISTS" -> "exists"
          [] w = "EXPLAIN" -> "explain" [] w = "FALSE" -> "false"
          [] w = "FLOAT" -> "float" [] w = "FOREIGN" -> "foreign" [] w = "FROM" -> "from"
          [] w = "GLOB" -> "glob" [] w = "GROUP" -> "group"
          [] w = "GROUP_CONCAT" -> "group_concat" [] w = "HAVING" -> "having"
          [] w = "HEX" -> "hex" [] w = "I" -> "i" [] w = "IF" -> "if"
          [] w = "IFNULL" -> "ifnull" [] w = "IN" -> "in" [] w = "INDEX" -> "index"
          [] w = "INNER" -> "inner" [] w = "INSERT" -> "insert" [] w = "INSTR" -> "instr"
          [] w = "INT" -> "int" [] w = "INTEGER" -> "integer" [] w = "INTO" -> "into"
          [] w = "ISNULL" -> "isnull" [] w = "JOIN" -> "join" [] w = "JSON" -> "json"
          [] w = "JSON_ARRAY" -> "json_array" [] w = "JSON_EXTRACT" -> "json_extract"
          [] w = "JSON_OBJECT" -> "json_object" [] w = "JULIANDAY" -> "julianday"
          [] w = "KEY" -> "key" [] w = "LEFT" -> "left" [] w = "LENGTH" -> "length"
          [] w = "LIKE" -> "like" [] w = "LIMIT" -> "limit" [] w = "LOWER" -> "lower"
          [] w = "LTRIM" -> "ltrim" [] w = "MAX" -> "max" [] w = "MIN" -> "min"
          [] w = "N" -> "n" [] w = "NOCASE" -> "nocase" [] w = "NOT" -> "not"
          [] w = "NOTNULL" -> "notnull" [] w = "NULL" -> "null"
          [] w = "NULLIF" -> "nullif" [] w = "NUMERIC" -> "numeric"
          [] w = "OFFSET" -> "offset" [] w = "ON" -> "on" [] w = "OR" -> "or"
          [] w = "ORDER" -> "order" [] w = "OUTER" -> "outer" [] w = "PRAGMA" -> "pragma"
          [] w = "PRIMARY" -> "primary" [] w = "PRINTF" -> "printf" [] w = "Q" -> "q"
          [] w = "QUOTE" -> "quote" [] w = "RANDOM" -> "random" [] w = "REAL" -> "real"
          [] w = "REFERENCES" -> "references" [] w = "RELEASE" -> "release"
          [] w = "REPLACE" -> "replace" [] w = "RIGHT" -> "right"
          [] w = "ROLLBACK" -> "rollback" [] w = "ROUND" -> "round"
          [] w = "RTRIM" -> "rtrim" [] w = "SAVEPOINT" -> "savepoint"
          [] w = "SELECT" -> "select" [] w = "SET" -> "set"
          [] w = "SMALLINT" -> "smallint" [] w = "STRFTIME" -> "strftime"
          [] w = "SUBSTR" -> "substr" [] w = "SUM" -> "sum" [] w = "TABLE" -> "table"
          [] w = "TEMP" -> "temp" [] w = "TEMPORARY" -> "temporary"
          [] w = "TEXT" -> "text" [] w = "THEN" -> "then" [] w = "TIME" -> "time"
          [] w = "TINYINT" -> "tinyint" [] w = "TOTAL" -> "total"
          [] w = "TRANSACTION" -> "transaction" [] w = "TRIGGER" -> "trigger"
          [] w = "TRIM" -> "trim" [] w = "TRUE" -> "true" [] w = "TYPEOF" -> "typeof"
          [] w = "UNION" -> "union" [] w = "UNIQUE" -> "unique"
          [] w = "UPDATE" -> "update" [] w = "UPPER" -> "upper" [] w = "USERS" -> "users"
          [] w = "Users" -> "users" [] w = "VALUES" -> "values"
          [] w = "VARCHAR" -> "varchar" [] w = "VIEW" -> "view" [] w = "WHEN" -> "when"
          [] w = "WHERE" -> "where" [] w = "X" -> "x" ]

to_lowercase(w) == IF w \in DOMAIN LowerCase THEN LowerCase[w] ELSE w

\* the first character of the lower-case words of the model
FirstChar ==
    [ w \in { "a", "abs", "all", "alter", "and", "as", "asc", "attach",
              "autoincrement", "avg", "b", "begin", "between", "bigint", "binary",
              "blob", "boolean", "by", "c", "case", "cast", "char", "check",
              "coalesce", "collate", "commit", "count", "create", "cross", "database",
              "date", "datetime", "default", "delete", "desc", "detach", "distinct",
              "double", "drop", "else", "end", "escape", "exists", "explain", "false",
              "float", "foreign", "from", "glob", "group", "group_concat", "having",
              "hex", "i", "id", "if", "ifnull", "in", "index", "inner", "insert",
              "instr", "int", "integer", "into", "isnull", "join", "json",
              "json_array", "json_extract", "json_object", "julianday", "key", "left",
              "length", "like", "limit", "lower", "ltrim", "max", "min", "n", "name",
              "nocase", "nosuch", "not", "notnull", "null", "nullif", "numeric", "o",
              "offset", "on", "or", "order", "orders", "outer", "pragma", "primary",
              "printf", "q", "quote", "random", "real", "references", "release",
              "replace", "right", "rollback", "round", "rtrim", "savepoint", "select",
              "set", "smallint", "strftime", "substr", "sum", "t", "table", "temp",
              "temporary", "text", "then", "time", "tinyint", "total", "transaction",
              "trigger", "trim", "true", "typeof", "u", "union", "unique", "update",
              "upper", "user_id", "users", "values", "varchar", "view", "when",
              "where", "x" } |->
        CASE w = "a" -> "a" [] w = "abs" -> "a" [] w = "all" -> "a" [] w = "alter" -> "a"
          [] w = "and" -> "a" [] w = "as" -> "a" [] w = "asc" -> "a"
          [] w = "attach" -> "a" [] w = "autoincrement" -> "a" [] w = "avg" -> "a"
          [] w = "b" -> "b" [] w = "begin" -> "b" [] w = "between" -> "b"
          [] w = "bigint" -> "b" [] w = "binary" -> "b" [] w = "blob" -> "b"
          [] w = "boolean" -> "b" [] w = "by" -> "b" [] w = "c" -> "c"
          [] w = "case" -> "c" [] w = "cast" -> "c" [] w = "char" -> "c"
          [] w = "check" -> "c" [] w = "coalesce" -> "c" [] w = "collate" -> "c"
          [] w = "commit" -> "c" [] w = "count" -> "c" [] w = "create" -> "c"
          [] w = "cross" -> "c" [] w = "database" -> "d" [] w = "date" -> "d"
          [] w = "datetime" -> "d" [] w = "default" -> "d" [] w = "delete" -> "d"
          [] w = "desc" -> "d" [] w = "detach" -> "d" [] w = "distinct" -> "d"
          [] w = "double" -> "d" [] w = "drop" -> "d" [] w = "else" -> "e"
          [] w = "end" -> "e" [] w = "escape" -> "e" [] w = "exists" -> "e"
          [] w = "explain" -> "e" [] w = "false" -> "f" [] w = "float" -> "f"
          [] w = "foreign" -> "f" [] w = "from" -> "f" [] w = "glob" -> "g"
          [] w = "group" -> "g" [] w = "group_concat" -> "g" [] w = "having" -> "h"
          [] w = "hex" -> "h" [] w = "i" -> "i" [] w = "id" -> "i" [] w = "if" -> "i"
          [] w = "ifnull" -> "i" [] w = "in" -> "i" [] w = "index" -> "i"
          [] w = "inner" -> "i" [] w = "insert" -> "i" [] w = "instr" -> "i"
          [] w = "int" -> "i" [] w = "integer" -> "i" [] w = "into" -> "i"
          [] w = "isnull" -> "i" [] w = "join" -> "j" [] w = "json" -> "j"
          [] w = "json_array" -> "j" [] w = "json_extract" -> "j"
          [] w = "json_object" -> "j" [] w = "julianday" -> "j" [] w = "key" -> "k"
          [] w = "left" -> "l" [] w = "length" -> "l" [] w = "like" -> "l"
          [] w = "limit" -> "l" [] w = "lower" -> "l" [] w = "ltrim" -> "l"
          [] w = "max" -> "m" [] w = "min" -> "m" [] w = "n" -> "n" [] w = "name" -> "n"
          [] w = "nocase" -> "n" [] w = "nosuch" -> "n" [] w = "not" -> "n"
          [] w = "notnull" -> "n" [] w = "null" -> "n" [] w = "nullif" -> "n"
          [] w = "numeric" -> "n" [] w = "o" -> "o" [] w = "offset" -> "o"
          [] w = "on" -> "o" [] w = "or" -> "o" [] w = "order" -> "o"
          [] w = "orders" -> "o" [] w = "outer" -> "o" [] w = "pragma" -> "p"
          [] w = "primary" -> "p" [] w = "printf" -> "p" [] w = "q" -> "q"
          [] w = "quote" -> "q" [] w = "random" -> "r" [] w = "real" -> "r"
          [] w = "references" -> "r" [] w = "release" -> "r" [] w = "replace" -> "r"
          [] w = "right" -> "r" [] w = "rollback" -> "r" [] w = "round" -> "r"
          [] w = "rtrim" -> "r" [] w = "savepoint" -> "s" [] w = "select" -> "s"
          [] w = "set" -> "s" [] w = "smallint" -> "s" [] w = "strftime" -> "s"
          [] w = "substr" -> "s" [] w = "sum" -> "s" [] w = "t" -> "t"
          [] w = "table" -> "t" [] w = "temp" -> "t" [] w = "temporary" -> "t"
          [] w = "text" -> "t" [] w = "then" -> "t" [] w = "time" -> "t"
          [] w = "tinyint" -> "t" [] w = "total" -> "t" [] w = "transaction" -> "t"
          [] w = "trigger" -> "t" [] w = "trim" -> "t" [] w = "true" -> "t"
          [] w = "typeof" -> "t" [] w = "u" -> "u" [] w = "union" -> "u"
          [] w = "unique" -> "u" [] w = "update" -> "u" [] w = "upper" -> "u"
          [] w = "user_id" -> "u" [] w = "users" -> "u" [] w = "values" -> "v"
          [] w = "varchar" -> "v" [] w = "view" -> "v" [] w = "when" -> "w"
          [] w = "where" -> "w" [] w = "x" -> "x" ]

\* str::starts_with on lower-case words, for a prefix that is empty, one letter
\* or the word itself
str_starts_with(w, prefix) ==
    \/ prefix = ""
    \/ w = prefix
    \/ w \in DOMAIN FirstChar /\ FirstChar[w] = prefix

\* the lexeme is made of letters, digits and underscores only
is_alphanumeric(x) ==
    x \notin { WS } \cup Punctuation \cup StringLiterals \cup UnclosedLiterals
               \cup QuotedIdentifiers

\* SqlLspService::get_word_at_offset: [start, word], start the number of
\* lexemes before the word
get_word_at_offset(text, offset) ==
    IF offset >= 1 /\ offset <= Len(text) /\ is_alphanumeric(text[offset])
    THEN [start |-> offset - 1, word |-> text[offset]]
    ELSE IF offset < Len(text) /\ is_alphanumeric(text[offset + 1])
         THEN [start |-> offset, word |-> text[offset + 1]]
         ELSE [start |-> offset, word |-> ""]

\* the position of the first lexeme at or before check_idx, going left, that is
\* no whitespace; position 1 is not passed (lsp.rs:1013-1015)
RECURSIVE skip_whitespace_left(_, _)
skip_whitespace_left(text, check_idx) ==
    IF check_idx > 1 /\ text[check_idx] = WS
    THEN skip_whitespace_left(text, check_idx - 1)
    ELSE check_idx

\* the qualifier of a dot completion (lsp.rs:1007-1024), None when there is none
qualifier_of(text, word_start) ==
    IF word_start = 0 THEN None
    ELSE LET check_idx == skip_whitespace_left(text, word_start)
         IN  IF text[check_idx] # PERIOD THEN None
             ELSE LET q_word == get_word_at_offset(text, check_idx - 1).word
                  IN  IF q_word # "" THEN q_word ELSE None

\* the table a qualifier names (lsp.rs:1034-1050); order is the order in which
\* the HashMap hands out its keys
resolve_qualifier(self, aliases, order, qual_name) ==
    LET same(w) == to_lowercase(w) = to_lowercase(qual_name)
        keys == SelectSeq(order, same)
        tables == SelectSeq(self.cached_tables, same)
    IN  IF qual_name \in DOMAIN aliases THEN aliases[qual_name]
        ELSE IF keys # <<>> THEN aliases[Head(keys)]
        ELSE IF tables # <<>> THEN Head(tables)
        ELSE None

\* CompletionItem::column, ::table, ::keyword, ::function, ::type_ and the
\* item of an index; the detail of a column holds its type and its table
CompletionItem_column(col) ==
    [label |-> col.name, kind |-> "Column", detail |-> << col.type_, col.table >>]
CompletionItem_table(label) == [label |-> label, kind |-> "Table", detail |-> << "table" >>]
CompletionItem_keyword(label) == [label |-> label, kind |-> "Keyword", detail |-> <<>>]
CompletionItem_function(label) ==
    [label |-> label, kind |-> "Function", detail |-> << "signature" >>]
CompletionItem_type(label) == [label |-> label, kind |-> "Type", detail |-> << "type" >>]
CompletionItem_index(label) == [label |-> label, kind |-> "Table", detail |-> << "index" >>]

\* the words of a list that match the prefix, in the order of the list
matching(words, prefix_lower) ==
    SelectSeq(words, LAMBDA w : str_starts_with(to_lowercase(w), prefix_lower))

\* the columns of the table the qualifier names (lsp.rs:1053-1060)
qualified_items(self, table, prefix_lower) ==
    LET cols == SelectSeq(self.cached_columns,
                    LAMBDA col : col.table = table
                                 /\ str_starts_with(to_lowercase(col.name), prefix_lower))
    IN  [i \in DOMAIN cols |-> CompletionItem_column(cols[i])]

\* a test that never finds a name among those already offered
seen_columns_contains_nothing(seen_columns, name) == FALSE

\* seen_columns.contains(&col.name)
seen_columns_contains(seen_columns, name) == name \in seen_columns

\* one pass over cached_columns from entry i on (lsp.rs:1109-1120, 1124-1134):
\* [seen_columns, items]; the first pass keeps to the relevant tables
RECURSIVE column_pass(_, _, _, _, _, _)
column_pass(cols, i, relevant_tables, first_pass, prefix_lower, acc) ==
    IF i > Len(cols) THEN acc
    ELSE LET col == cols[i]
             skip == IF first_pass
                     THEN relevant_tables # {} /\ col.table \notin relevant_tables
                     ELSE seen_columns_contains(acc.seen_columns, col.name)
         IN  IF ~skip /\ str_starts_with(to_lowercase(col.name), prefix_lower)
                /\ ~seen_columns_contains(acc.seen_columns, col.name)
             THEN column_pass(cols, i + 1, relevant_tables, first_pass, prefix_lower,
                      [seen_columns |-> acc.seen_columns \cup { col.name },
                       items |-> Append(acc.items, CompletionItem_column(col))])
             ELSE column_pass(cols, i + 1, relevant_tables, first_pass, prefix_lower, acc)

\* the ColumnContext arm (lsp.rs:1100-1159)
column_context_items(self, aliases, order, prefix_lower) ==
    LET each(words, Item(_)) == [i \in DOMAIN words |-> Item(words[i])]
        relevant_tables == { aliases[k] : k \in DOMAIN aliases }
        first == column_pass(self.cached_columns, 1, relevant_tables, TRUE, prefix_lower,
                             [seen_columns |-> {}, items |-> <<>>])
        both == IF first.items = <<>> \/ relevant_tables = {}
                THEN column_pass(self.cached_columns, 1, relevant_tables, FALSE,
                                 prefix_lower, first)
                ELSE first
    IN  both.items
          \o each(matching(SqlFunctions, prefix_lower), CompletionItem_function)
          \o each(matching(order, prefix_lower), CompletionItem_table)
          \o each(matching(PostColumnKeywords, prefix_lower), CompletionItem_keyword)

\* the candidates of an unqualified completion (lsp.rs:1068-1230)
context_items(self, context, aliases, order, prefix_lower) ==
    LET each(words, Item(_)) == [i \in DOMAIN words |-> Item(words[i])]
    IN
    CASE context = "TableContext" ->
           each(matching(self.cached_tables, prefix_lower), CompletionItem_table)
             \o each(matching(PostTableKeywords, prefix_lower), CompletionItem_keyword)
      [] context = "InsertContext" ->
           each(matching(<< "INTO" >>, prefix_lower), CompletionItem_keyword)
      [] context = "ColumnContext" -> column_context_items(self, aliases, order, prefix_lower)
      [] context = "TypeContext" ->
           each(matching(SqlTypes, prefix_lower), CompletionItem_type)
             \o each(matching(ConstraintKeywords, prefix_lower), CompletionItem_keyword)
      [] context = "IndexContext" ->
           each(matching(self.cached_indexes, prefix_lower), CompletionItem_index)
             \o each(matching(IndexKeywords, prefix_lower), CompletionItem_keyword)
      [] OTHER ->
           each(matching(SqlKeywords, prefix_lower), CompletionItem_keyword)
             \o each(matching(SqlFunctions, prefix_lower), CompletionItem_function)
             \o each(matching(self.cached_tables, prefix_lower), CompletionItem_table)

\* SqlLspService::completion; order is the order in which the HashMap of the
\* aliases hands out its keys: [qualifier, context, items]
completion(self, text, offset, order) ==
    LET found == get_word_at_offset(text, offset)
        prefix_lower == to_lowercase(found.word)
        qualifier == qualifier_of(text, found.start)
        aliases == extract_tables_aliases(text)
    IN  IF qualifier # None
        THEN LET table == resolve_qualifier(self, aliases, order, qualifier)
             IN  [ qualifier |-> qualifier, context |-> None,
                   items |-> IF table # None THEN qualified_items(self, table, prefix_lower)
                             ELSE <<>> ]
        ELSE LET context == detect_context(text, offset)
             IN  [ qualifier |-> None, context |-> context,
                   items |-> context_items(self, context, aliases, order, prefix_lower) ]

(***************************************************************************)
(* Calls of completion: a text, the cursor in it and a schema cache.       *)
(***************************************************************************)
\* the texts completion is asked about, each with the number of lexemes before
\* the cursor
CompletionInputs ==
    { [text |-> << "SELECT", WS, q, PERIOD >>, offset |-> 4] :
          q \in { "x", "users", "Users", "nosuch", "\"q\"", "\"users\"" } }
    \cup
    { [text |-> << "SELECT", WS, "x", PERIOD, "n", WS, "FROM", WS, "users", WS, "x" >>,
       offset |-> 5],
      [text |-> << "SELECT", WS, "x", PERIOD, WS, "FROM", WS, "users", WS, "x" >>,
       offset |-> 4],
      [text |-> << "SELECT", WS, "X", PERIOD, WS, "FROM", WS, "users", WS, "x" >>,
       offset |-> 4],
      [text |-> << "SELECT", WS, "nosuch", PERIOD, WS, "FROM", WS, "users", WS, "x" >>,
       offset |-> 4],
      [text |-> << "SELECT", WS, "u", PERIOD, WS, "FROM", WS, "USERS", WS, "u" >>,
       offset |-> 4],
      [text |-> << "SELECT", WS, "u", PERIOD, "n", WS, "FROM", WS, "USERS", WS, "u" >>,
       offset |-> 5],
      [text |-> << "SELECT", WS, "USERS", PERIOD, "n" >>, offset |-> 5],
      [text |-> << "SELECT", WS, "\"q\"", PERIOD, "i", WS, "FROM", WS, "users", WS, "x" >>,
       offset |-> 5],
      [text |-> << "SELECT", WS, WS, "FROM", WS, "users", WS, "x", WS,
                   "JOIN", WS, "orders", WS, "o" >>,
       offset |-> 2],
      [text |-> << "SELECT", WS, "i", WS, "FROM", WS, "users", WS, "JOIN", WS, "orders" >>,
       offset |-> 3],
      [text |-> << "SELECT", WS, WS, "FROM", WS, "orders" >>, offset |-> 2],
      [text |-> << "SELECT", WS, "u", WS, "FROM", WS, "users" >>, offset |-> 3],
      [text |-> << "SELECT", WS, WS, "FROM", WS, "nosuch" >>, offset |-> 2],
      [text |-> << "SELECT", WS >>, offset |-> 2],
      [text |-> << "SELECT", WS, "*", WS, "FROM", WS >>, offset |-> 6],
      [text |-> << "INSERT", WS >>, offset |-> 2],
      [text |-> << "DROP", WS, "INDEX", WS >>, offset |-> 4],
      [text |-> << "CREATE", WS, "TABLE", WS, "t", WS, LPAREN, WS, "a", WS >>,
       offset |-> 10],
      [text |-> <<>>, offset |-> 0] }

\* the caches a service may hold over a database: what refresh_schema leaves,
\* whatever the reads answer
CachesOf(cat) ==
    { SqlLspService_refresh_schema(SqlLspService_new, cat, ans).self : ans \in CatalogAnswers }

\* the orders in which a HashMap may hand out its keys
KeyOrders(m) ==
    { s \in [1..Cardinality(DOMAIN m) -> DOMAIN m] : Range(s) = DOMAIN m }

\* a service with some cache, a text and a cursor are given
CompleteStart ==
    /\ ReplStart
    /\ catalog \in Catalogs
    /\ lsp \in CachesOf(catalog)
    /\ call \in [op : {"input"}, at : CompletionInputs]

\* a call of completion
Completion ==
    /\ call.op = "input"
    /\ \E order \in KeyOrders(extract_tables_aliases(call.at.text)) :
       \E r \in { completion(lsp, call.at.text, call.at.offset, order) } :
           call' = [op |-> "completion", text |-> call.at.text,
                    offset |-> call.at.offset,
                    aliases |-> extract_tables_aliases(call.at.text),
                    qualifier |-> r.qualifier, context |-> r.context, items |-> r.items]
    /\ UNCHANGED << lsp, catalog >>
    /\ UNCHANGED replvars

NextComplete == Completion

SpecComplete == CompleteStart /\ [][NextComplete]_vars

\* the lexeme before the cursor-side word is a dot, and before the dot stands
\* a name: the cursor is after `q.<prefix>`; the name is what q holds
DotQualifier(text, offset) ==
    LET start == get_word_at_offset(text, offset).start
    IN  IF start >= 2 /\ text[start] = PERIOD
           /\ (is_alphanumeric(text[start - 1]) \/ text[start - 1] \in QuotedIdentifiers)
        THEN token_of(text[start - 1]).value
        ELSE None

\* q is an alias or table bound in the fragment, or a cached table name,
\* compared without regard to case
InScope(self, aliases, q) ==
    \/ \E k \in DOMAIN aliases : to_lowercase(k) = to_lowercase(q)
    \/ \E i \in DOMAIN self.cached_tables :
           to_lowercase(self.cached_tables[i]) = to_lowercase(q)

\* C13: after `q.<prefix>`, q no alias or table of the fragment and no cached
\* table, completion returns no candidate
C13_QualifiedIsolation ==
    ( /\ call.op = "completion"
      /\ DotQualifier(call.text, call.offset) # None
      /\ ~InScope(lsp, call.aliases, DotQualifier(call.text, call.offset)) )
    => call.items = <<>>

\* the cached table a qualifier stands for when letter case is left aside: the
\* table its alias is bound to, or the table of that name
TableOf(self, aliases, q) ==
    LET keys == { k \in DOMAIN aliases : to_lowercase(k) = to_lowercase(q) }
        named == IF q \in DOMAIN aliases THEN aliases[q]
                 ELSE IF keys # {} THEN aliases[CHOOSE k \in keys : TRUE]
                 ELSE q
        cached == SelectSeq(self.cached_tables,
                            LAMBDA t : to_lowercase(t) = to_lowercase(named))
    IN  IF cached = <<>> THEN None ELSE Head(cached)

\* the names of the columns of table T that start with the prefix, in the
\* order of the cache
ColumnsOf(self, T, prefix) ==
    LET cols == SelectSeq(self.cached_columns,
                    LAMBDA c : c.table = T
                               /\ str_starts_with(to_lowercase(c.name), to_lowercase(prefix)))
    IN  [i \in DOMAIN cols |-> cols[i].name]

\* C23: after `q.<prefix>` with q standing for the cached table T, whatever the
\* letter case in the text, the candidates are the columns of T that start
\* with the prefix
C23_QualifiedMatchesAnyCase ==
    ( /\ call.op = "completion"
      /\ call.qualifier # None
      /\ DotQualifier(call.text, call.offset) = call.qualifier
      /\ TableOf(lsp, call.aliases, DotQualifier(call.text, call.offset)) # None )
    => [i \in DOMAIN call.items |-> call.items[i].label]
         = ColumnsOf(lsp, TableOf(lsp, call.aliases, DotQualifier(call.text, call.offset)),
                     get_word_at_offset(call.text, call.offset).word)

\* the Column items of a result
ColumnItems(items) == SelectSeq(items, LAMBDA it : it.kind = "Column")

\* the tables the aliases of a text resolve to
RelevantTables(aliases) == { aliases[k] : k \in DOMAIN aliases }

\* the item is the first column of its name in cache order: among the columns
\* of the tables in scope when it comes from one of them, among all otherwise
FirstOccurrence(self, relevant, it) ==
    LET cols == self.cached_columns
        at == CHOOSE i \in DOMAIN cols :
                  /\ cols[i].name = it.label
                  /\ << cols[i].type_, cols[i].table >> = it.detail
        eligible(i) == it.detail[2] \in relevant => cols[i].table \in relevant
    IN  \A j \in DOMAIN cols :
            (cols[j].name = it.label /\ eligible(j)) => at <= j

\* C14: in ColumnContext with the aliases resolving to at least one table, each
\* column name is offered at most once, and the column offered is the first of
\* that name in cache order
C14_ColumnsOfferedOnce ==
    ( /\ call.op = "completion"
      /\ call.context = "ColumnContext"
      /\ RelevantTables(call.aliases) # {} )
    => LET cols == ColumnItems(call.items)
       IN  /\ \A i, j \in DOMAIN cols : cols[i].label = cols[j].label => i = j
           /\ \A i \in DOMAIN cols :
                  FirstOccurrence(lsp, RelevantTables(call.aliases), cols[i])

\* two tables in scope hold a column id, and id was offered once, from the
\* table that comes first in the cache
C14_Witness ==
    /\ call.op = "completion"
    /\ call.context = "ColumnContext"
    /\ RelevantTables(call.aliases) = { "users", "orders" }
    /\ Len(SelectSeq(lsp.cached_columns, LAMBDA c : c.name = "id")) = 2
    /\ SelectSeq(ColumnItems(call.items), LAMBDA it : it.label = "id")
         = << CompletionItem_column([table |-> "orders", name |-> "id", type_ |-> "INTEGER"]) >>

(***************************************************************************)
(* output.rs: the formatters.  A string is the sequence of its characters; *)
(* a result holds the column names and the rows of cells.                  *)
(***************************************************************************)
QUOTE == "\""
BACKSLASH == "\\"
PIPE == "|"
DASH == "-"

\* the cell db.rs writes for an SQL NULL
NULL_CELL == << "N", "U", "L", "L" >>

\* a setting of CliState as a string of characters: the settings of the model
\* are empty or one character long
Chars(setting) == IF setting = "" THEN <<>> ELSE << setting >>

\* [String]::join
RECURSIVE join(_, _)
join(strings, sep) ==
    IF strings = <<>> THEN <<>>
    ELSE IF Len(strings) = 1 THEN strings[1]
    ELSE strings[1] \o sep \o join(Tail(strings), sep)

\* the strings of a sequence one after the other
RECURSIVE concat(_)
concat(strings) == IF strings = <<>> THEN <<>> ELSE Head(strings) \o concat(Tail(strings))

\* str::contains(char)
contains(str, ch) == \E i \in DOMAIN str : str[i] = ch

\* str::replace(char, with) where with is a string
RECURSIVE replace(_, _, _)
replace(str, ch, with) ==
    IF str = <<>> THEN <<>>
    ELSE (IF Head(str) = ch THEN with ELSE << Head(str) >>) \o replace(Tail(str), ch, with)

\* n times the character ch
repeat(ch, n) == [i \in 1..n |-> ch]

\* the cell as it is written: null_val for the NULL cell
cell_value(cell, null_val) == IF cell = NULL_CELL THEN null_val ELSE cell

\* the buffer of format_list before it is trimmed (output.rs:22-46)
format_list_output(result, st) ==
    LET sep == Chars(st.separator)
        null_val == Chars(st.null_value)
        line(row) == join([i \in DOMAIN row |-> cell_value(row[i], null_val)], sep) \o << NL >>
    IN  (IF st.show_headers THEN join(result.columns, sep) \o << NL >> ELSE <<>>)
          \o concat([r \in DOMAIN result.rows |-> line(result.rows[r])])

format_list(result, st) == trim_end(format_list_output(result, st))

\* the closure escape_csv of format_csv
escape_csv(str) ==
    IF contains(str, QUOTE) \/ contains(str, ",") \/ contains(str, NL)
    THEN << QUOTE >> \o replace(str, QUOTE, << QUOTE, QUOTE >>) \o << QUOTE >>
    ELSE str

\* the buffer of format_csv before it is trimmed (output.rs:53-83)
format_csv_output(result, st) ==
    LET null_val == Chars(st.null_value)
        line(row) == join([i \in DOMAIN row |-> escape_csv(cell_value(row[i], null_val))],
                          << "," >>) \o << NL >>
    IN  (IF st.show_headers
         THEN join([i \in DOMAIN result.columns |-> escape_csv(result.columns[i])], << "," >>)
                \o << NL >>
         ELSE <<>>)
          \o concat([r \in DOMAIN result.rows |-> line(result.rows[r])])

format_csv(result, st) == trim_end(format_csv_output(result, st))

Max(a, b) == IF a >= b THEN a ELSE b

\* the widest of the first n rows in column i, the header counted (output.rs:97-109)
RECURSIVE column_width(_, _, _, _)
column_width(result, null_val, i, n) ==
    IF n = 0 THEN Len(result.columns[i])
    ELSE Max(column_width(result, null_val, i, n - 1),
             Len(cell_value(result.rows[n][i], null_val)))

\* the widths of format_column, the widths set by .width applied (output.rs:97-116)
column_widths(result, st) ==
    [i \in DOMAIN result.columns |->
        IF i <= Len(st.column_widths) /\ st.column_widths[i] > 0
        THEN st.column_widths[i]
        ELSE column_width(result, Chars(st.null_value), i, Len(result.rows))]

\* format!("{:<width$}") on the content cut to the width
pad_right(str, w) ==
    IF Len(str) > w THEN SubSeq(str, 1, w) ELSE str \o repeat(WS, w - Len(str))

\* format!("{:>width$}")
pad_left(str, w) == IF Len(str) >= w THEN str ELSE repeat(WS, w - Len(str)) \o str

\* the buffer of format_column before it is trimmed (output.rs:118-159)
format_column_output(result, st) ==
    LET widths == column_widths(result, st)
        null_val == Chars(st.null_value)
        line(row) ==
            join([i \in DOMAIN row |-> pad_right(cell_value(row[i], null_val), widths[i])],
                 << WS, WS >>) \o << NL >>
    IN  (IF st.show_headers
         THEN line(result.columns)
                \o join([i \in DOMAIN widths |-> repeat(DASH, widths[i])], << WS, WS >>)
                \o << NL >>
         ELSE <<>>)
          \o concat([r \in DOMAIN result.rows |-> line(result.rows[r])])

format_column(result, st) ==
    IF result.rows = <<>> THEN <<>> ELSE trim_end(format_column_output(result, st))

\* the longest column name (output.rs:170)
RECURSIVE max_len(_)
max_len(strings) ==
    IF strings = <<>> THEN 0 ELSE Max(Len(Head(strings)), max_len(Tail(strings)))

\* the buffer of format_line before it is trimmed (output.rs:166-181)
format_line_output(result, st) ==
    LET null_val == Chars(st.null_value)
        max_col_len == max_len(result.columns)
        entry(row, i) ==
            pad_left(result.columns[i], max_col_len) \o << WS, "=", WS >>
              \o cell_value(row[i], null_val) \o << NL >>
        block(r) ==
            (IF r > 1 THEN << NL >> ELSE <<>>)
              \o concat([i \in DOMAIN result.columns |-> entry(result.rows[r], i)])
    IN  concat([r \in DOMAIN result.rows |-> block(r)])

format_line(result, st) == trim_end(format_line_output(result, st))

\* serde_json values: null and strings
JsonNull == [tag |-> "null", str |-> <<>>]
JsonString(str) == [tag |-> "string", str |-> str]

\* the order of the characters that column names are made of
CharRank == [c \in { "a", "b" } |-> IF c = "a" THEN 1 ELSE 2]

\* str::cmp on column names
RECURSIVE str_less(_, _)
str_less(s, t) ==
    IF t = <<>> THEN FALSE
    ELSE IF s = <<>> THEN TRUE
    ELSE IF Head(s) = Head(t) THEN str_less(Tail(s), Tail(t))
    ELSE CharRank[Head(s)] < CharRank[Head(t)]

\* serde_json::Map::insert on a map held as the sequence of its entries: the
\* value of a key that is there is replaced; a new key goes to its place in
\* the order of the keys, or to the end when the map keeps the order of insertion
map_insert(obj, key, value, preserve_order) ==
    IF \E i \in DOMAIN obj : obj[i].key = key
    THEN [i \in DOMAIN obj |-> IF obj[i].key = key THEN [key |-> key, value |-> value]
                                ELSE obj[i]]
    ELSE IF preserve_order THEN Append(obj, [key |-> key, value |-> value])
    ELSE SelectSeq(obj, LAMBDA e : str_less(e.key, key))
           \o << [key |-> key, value |-> value] >>
           \o SelectSeq(obj, LAMBDA e : str_less(key, e.key))

\* the object of a row from column i on (output.rs:196-209)
RECURSIVE row_object(_, _, _, _, _, _)
row_object(columns, row, null_val, preserve_order, i, obj) ==
    IF i > Len(columns) \/ i > Len(row) THEN obj
    ELSE LET val == IF row[i] = NULL_CELL
                    THEN (IF null_val = <<>> THEN JsonNull ELSE JsonString(null_val))
                    ELSE JsonString(row[i])
         IN  row_object(columns, row, null_val, preserve_order, i + 1,
                        map_insert(obj, columns[i], val, preserve_order))

\* the rows as JSON objects
json_rows(result, st, preserve_order) ==
    [r \in DOMAIN result.rows |->
        row_object(result.columns, result.rows[r], Chars(st.null_value),
                   preserve_order, 1, <<>>)]

\* a string as serde_json writes it
json_string(str) ==
    << QUOTE >>
      \o replace(replace(replace(str, BACKSLASH, << BACKSLASH, BACKSLASH >>),
                         QUOTE, << BACKSLASH, QUOTE >>),
                 NL, << BACKSLASH, "n" >>)
      \o << QUOTE >>

json_value(v) == IF v.tag = "null" THEN << "n", "u", "l", "l" >> ELSE json_string(v.str)

\* serde_json::to_string on an object
to_string(obj) ==
    << "{" >>
      \o join([i \in DOMAIN obj |-> json_string(obj[i].key) \o << ":" >> \o json_value(obj[i].value)],
              << "," >>)
      \o << "}" >>

\* serde_json::to_string_pretty on an array of objects
to_string_pretty(rows) ==
    LET entry(e) == repeat(WS, 4) \o json_string(e.key) \o << ":", WS >> \o json_value(e.value)
        object(obj) ==
            IF obj = <<>> THEN repeat(WS, 2) \o << "{", "}" >>
            ELSE repeat(WS, 2) \o << "{", NL >>
                   \o join([i \in DOMAIN obj |-> entry(obj[i])], << ",", NL >>)
                   \o << NL >> \o repeat(WS, 2) \o << "}" >>
    IN  IF rows = <<>> THEN << "[", "]" >>
        ELSE << "[", NL >>
               \o join([r \in DOMAIN rows |-> object(rows[r])], << ",", NL >>)
               \o << NL, "]" >>

format_json(result, st, preserve_order) ==
    to_string_pretty(json_rows(result, st, preserve_order))

\* the buffer of format_jsonl before it is trimmed (output.rs:221-241)
format_jsonl_output(result, st, preserve_order) ==
    LET rows == json_rows(result, st, preserve_order)
    IN  concat([r \in DOMAIN rows |-> to_string(rows[r]) \o << NL >>])

format_jsonl(result, st, preserve_order) ==
    trim_end(format_jsonl_output(result, st, preserve_order))

\* the buffer of format_markdown before it is trimmed (output.rs:422-448)
format_markdown_output(result, st) ==
    LET null_val == Chars(st.null_value)
        line(row) ==
            << PIPE, WS >>
              \o join([i \in DOMAIN row |->
                          replace(cell_value(row[i], null_val), PIPE, << BACKSLASH, PIPE >>)],
                      << WS, PIPE, WS >>)
              \o << WS, PIPE, NL >>
    IN  << PIPE, WS >> \o join(result.columns, << WS, PIPE, WS >>) \o << WS, PIPE, NL >>
          \o << PIPE >>
          \o concat([i \in DOMAIN result.columns |-> << WS, DASH, DASH, DASH, WS, PIPE >>])
          \o << NL >>
          \o concat([r \in DOMAIN result.rows |-> line(result.rows[r])])

format_markdown(result, st) ==
    IF result.rows = <<>> THEN <<>> ELSE trim_end(format_markdown_output(result, st))

\* the modes whose formatter is modelled: table mode draws boxes and is not
FormatModes == { "list", "csv", "column", "line", "json", "jsonl", "markdown" }

\* the text a formatter has assembled when it is about to return; preserve_order
\* tells whether the JSON maps of the build keep the order of insertion
assembled(result, st, preserve_order) ==
    CASE st.output_mode = "list" -> format_list_output(result, st)
      [] st.output_mode = "csv" -> format_csv_output(result, st)
      [] st.output_mode = "column" ->
           IF result.rows = <<>> THEN <<>> ELSE format_column_output(result, st)
      [] st.output_mode = "line" -> format_line_output(result, st)
      [] st.output_mode = "json" -> format_json(result, st, preserve_order)
      [] st.output_mode = "jsonl" -> format_jsonl_output(result, st, preserve_order)
      [] st.output_mode = "markdown" ->
           IF result.rows = <<>> THEN <<>> ELSE format_markdown_output(result, st)

\* format_result
format_result(result, st, preserve_order) ==
    CASE st.output_mode = "list" -> format_list(result, st)
      [] st.output_mode = "csv" -> format_csv(result, st)
      [] st.output_mode = "column" -> format_column(result, st)
      [] st.output_mode = "line" -> format_line(result, st)
      [] st.output_mode = "json" -> format_json(result, st, preserve_order)
      [] st.output_mode = "jsonl" -> format_jsonl(result, st, preserve_order)
      [] st.output_mode = "markdown" -> format_markdown(result, st)

(***************************************************************************)
(* Calls of format_result on results of a query.                           *)
(***************************************************************************)
MaxRows == 2

\* the cells of the results: empty, plain, ending in a space, holding the
\* characters CSV quotes, and NULL
Cells == { <<>>, << "x" >>, << "x", WS >>, << QUOTE, ",", NL >>, NULL_CELL }

\* the column lists of the results: one column, two columns that are not in
\* alphabetical order, one name twice
ColumnLists == { << << "a" >> >>, << << "b" >>, << "a" >> >>, << << "a" >>, << "a" >> >> }

Results ==
    UNION { [columns : { cols },
             rows : UNION { [1..n -> [1..Len(cols) -> Cells]] : n \in 0..MaxRows }] :
            cols \in ColumnLists }

\* a result and the settings of the shell are given
FormatStart ==
    /\ ReplStart
    /\ lsp = SqlLspService_new
    /\ catalog = [tables |-> {}, indexes |-> {}]
    /\ call \in [op : { "input" }, result : Results, mode : FormatModes, show_headers : BOOLEAN]

\* a call of format_result
FormatResult ==
    /\ call.op = "input"
    /\ \E preserve_order \in BOOLEAN :
       \E st \in { set_headers(set_mode(CliState_new("a.db", FALSE), call.mode),
                               call.show_headers) } :
           call' = [op |-> "format_result", result |-> call.result, st |-> st,
                    assembled |-> assembled(call.result, st, preserve_order),
                    output |-> format_result(call.result, st, preserve_order)]
    /\ UNCHANGED << lsp, catalog >>
    /\ UNCHANGED replvars

NextFormat == FormatResult

SpecFormat == FormatStart /\ [][NextFormat]_vars

\* reading CSV from character i on: a quote opens a quoted field, two quotes
\* in one stand for a quote, a comma ends a field and a line feed a record
RECURSIVE csv_scan(_, _, _, _, _, _)
csv_scan(text, i, in_quotes, field, record, records) ==
    IF i > Len(text)
    THEN (IF text = <<>> THEN records ELSE Append(records, Append(record, field)))
    ELSE LET c == text[i]
         IN  IF in_quotes
             THEN IF c = QUOTE /\ i < Len(text) /\ text[i + 1] = QUOTE
                  THEN csv_scan(text, i + 2, TRUE, Append(field, QUOTE), record, records)
                  ELSE IF c = QUOTE
                  THEN csv_scan(text, i + 1, FALSE, field, record, records)
                  ELSE csv_scan(text, i + 1, TRUE, Append(field, c), record, records)
             ELSE CASE c = QUOTE -> csv_scan(text, i + 1, TRUE, field, record, records)
                    [] c = "," -> csv_scan(text, i + 1, FALSE, <<>>, Append(record, field), records)
                    [] c = NL -> csv_scan(text, i + 1, FALSE, <<>>, <<>>,
                                          Append(records, Append(record, field)))
                    [] OTHER -> csv_scan(text, i + 1, FALSE, Append(field, c), record, records)

\* the columns and rows a CSV text with a header line holds
ParseCsv(text) ==
    LET records == csv_scan(text, 1, FALSE, <<>>, <<>>, <<>>)
    IN  IF records = <<>> THEN [columns |-> <<>>, rows |-> <<>>]
        ELSE [columns |-> Head(records), rows |-> Tail(records)]

\* reading JSON from character i on: the objects of the array, each the
\* sequence of its members in the order of the text; null reads as the empty
\* string
RECURSIVE json_scan(_, _, _, _, _, _, _, _)
json_scan(text, i, mode, str, have_key, key, obj, objs) ==
    IF i > Len(text) THEN objs
    ELSE LET c == text[i]
         IN  CASE mode = "esc" ->
                    json_scan(text, i + 1, "str", Append(str, IF c = "n" THEN NL ELSE c),
                              have_key, key, obj, objs)
               [] mode = "str" /\ c = BACKSLASH ->
                    json_scan(text, i + 1, "esc", str, have_key, key, obj, objs)
               [] mode = "str" /\ c = QUOTE ->
                    IF have_key
                    THEN json_scan(text, i + 1, "out", <<>>, FALSE, <<>>,
                                   Append(obj, [key |-> key, value |-> str]), objs)
                    ELSE json_scan(text, i + 1, "out", <<>>, TRUE, str, obj, objs)
               [] mode = "str" ->
                    json_scan(text, i + 1, "str", Append(str, c), have_key, key, obj, objs)
               [] c = QUOTE -> json_scan(text, i + 1, "str", <<>>, have_key, key, obj, objs)
               [] c = "{" -> json_scan(text, i + 1, "out", <<>>, FALSE, <<>>, <<>>, objs)
               [] c = "}" -> json_scan(text, i + 1, "out", <<>>, FALSE, <<>>, <<>>,
                                       Append(objs, obj))
               [] c = "n" -> json_scan(text, i + 4, "out", <<>>, FALSE, <<>>,
                                       Append(obj, [key |-> key, value |-> <<>>]), objs)
               [] OTHER -> json_scan(text, i + 1, "out", str, have_key, key, obj, objs)

\* the columns and rows a JSON array of objects holds: the columns are the
\* names of the members of the first object
ParseJson(text) ==
    LET objs == json_scan(text, 1, "out", <<>>, FALSE, <<>>, <<>>, <<>>)
    IN  [columns |-> IF objs = <<>> THEN <<>>
                     ELSE [i \in DOMAIN objs[1] |-> objs[1][i].key],
         rows |-> [r \in DOMAIN objs |-> [i \in DOMAIN objs[r] |-> objs[r][i].value]]]

\* a result with every cell as the string that is written for it
AsStrings(result, st) ==
    [columns |-> result.columns,
     rows |-> [r \in DOMAIN result.rows |->
                  [i \in DOMAIN result.rows[r] |->
                      cell_value(result.rows[r][i], Chars(st.null_value))]]]

\* C17: in CSV and JSON mode with headers, reading the output back gives the
\* columns in their order and the rows of the result, every value as a string
C17_OutputRoundTrip ==
    ( /\ call.op = "format_result"
      /\ call.st.show_headers
      /\ call.st.output_mode \in { "csv", "json" } )
    => (IF call.st.output_mode = "csv" THEN ParseCsv(call.output) ELSE ParseJson(call.output))
         = AsStrings(call.result, call.st)

\* the text without its last character when that is a line feed
WithoutOneNewline(text) ==
    IF text # <<>> /\ text[Len(text)] = NL THEN SubSeq(text, 1, Len(text) - 1) ELSE text

\* C19: what a formatter returns is the text it assembled with one line feed
\* taken off its end, nothing else
C19_OneNewlineRemoved ==
    call.op = "format_result" => call.output = WithoutOneNewline(call.assembled)

(***************************************************************************)
(* import_export.rs: generate_sql_dump, and dot_commands.rs: cmd_dump.     *)
(* A database is the set of its sqlite_master entries and the rows of its  *)
(* tables.  A value is its storage class and its content as characters.    *)
(* The dump is the sequence of its lines.                                  *)
(***************************************************************************)
MaxTableRows == 1

\* what a database may hold: table t with an untyped column and a REAL column,
\* table u whose primary key brings an index without sql, an index, a view and
\* a trigger on t
MasterEntries ==
    { [type |-> "table", name |-> "t", tbl_name |-> "t", sql |-> "CREATE TABLE t(a, b REAL)"],
      [type |-> "table", name |-> "u", tbl_name |-> "u",
       sql |-> "CREATE TABLE u(k TEXT PRIMARY KEY)"],
      [type |-> "index", name |-> "sqlite_autoindex_u_1", tbl_name |-> "u", sql |-> None],
      [type |-> "index", name |-> "i", tbl_name |-> "t", sql |-> "CREATE INDEX i ON t(a)"],
      [type |-> "view", name |-> "v", tbl_name |-> "v",
       sql |-> "CREATE VIEW v AS SELECT a FROM t"],
      [type |-> "trigger", name |-> "g", tbl_name |-> "t",
       sql |-> "CREATE TRIGGER g AFTER INSERT ON t BEGIN SELECT 1; END"] }

\* the table names of the model in the order of ORDER BY name, and the
\* declared types of their columns
DumpTables == << "t", "u" >>
ColumnTypes(table) == IF table = "t" THEN << "", "REAL" >> ELSE << "TEXT" >>

Value(class, content) == [class |-> class, content |-> content]
NullValue == Value("null", <<>>)

\* the values a column of the declared type may hold
ValuesOf(decl) ==
    CASE decl = "REAL" -> { NullValue, Value("real", << "1", ".", "0" >>) }
      [] decl = "TEXT" -> { Value("text", << "i", "t", "'", "s" >>), Value("text", <<>>) }
      [] OTHER -> { NullValue,
                    Value("integer", << "1" >>),
                    Value("real", << "1", ".", "5" >>),
                    Value("real", << "1", ".", "0" >>),
                    Value("text", << "i", "t", "'", "s" >>),
                    Value("blob", << "a", "b" >>) }

RowsOf(table) ==
    LET decl == ColumnTypes(table)
    IN  { r \in [DOMAIN decl -> UNION { ValuesOf(decl[i]) : i \in DOMAIN decl }] :
              \A i \in DOMAIN decl : r[i] \in ValuesOf(decl[i]) }

EmptyDatabase == [master |-> {}, rows |-> [t \in Range(DumpTables) |-> <<>>]]

\* the databases of the model: an index, a view or a trigger has its table,
\* the index of a primary key is there with its table, a table that is not
\* there has no rows
Databases ==
    { d \in [master : SUBSET MasterEntries,
             rows : [Range(DumpTables) ->
                        UNION { UNION { [1..n -> RowsOf(t)] : n \in 0..MaxTableRows } :
                                t \in Range(DumpTables) }]] :
        /\ \A e \in d.master : e.type # "table" =>
               \E t \in d.master : t.type = "table" /\ t.name = (IF e.type = "view" THEN "t" ELSE e.tbl_name)
        /\ \A e \in MasterEntries :
               (e.sql = None /\ \E t \in d.master : t.type = "table" /\ t.name = e.tbl_name)
                 => e \in d.master
        /\ \A t \in Range(DumpTables) :
               /\ \A i \in DOMAIN d.rows[t] : d.rows[t][i] \in RowsOf(t)
               /\ (\A e \in d.master : ~(e.type = "table" /\ e.name = t)) => d.rows[t] = <<>> }

\* SELECT name FROM sqlite_master WHERE type='table' ORDER BY name
db_get_tables(db) ==
    SelectSeq(DumpTables, LAMBDA t : \E e \in db.master : e.type = "table" /\ e.name = t)

\* f64::to_string: a real without a fraction is written without the point
f64_to_string(content) ==
    IF Len(content) >= 2 /\ SubSeq(content, Len(content) - 1, Len(content)) = << ".", "0" >>
    THEN SubSeq(content, 1, Len(content) - 2)
    ELSE content

\* the text written for a value (import_export.rs:58-67)
val_str(val_ref) ==
    CASE val_ref.class = "null" -> NULL_CELL
      [] val_ref.class = "integer" -> val_ref.content
      [] val_ref.class = "real" -> f64_to_string(val_ref.content)
      [] val_ref.class = "text" ->
           << "'" >> \o replace(val_ref.content, "'", << "'", "'" >>) \o << "'" >>
      [] val_ref.class = "blob" -> << "X", "'", "'" >>

\* a line of the dump: a statement as it is, or an INSERT with the texts of
\* its values
Line(kind, sql, table, values) ==
    [kind |-> kind, sql |-> sql, table |-> table, values |-> values]

\* the lines for one table (import_export.rs:32-78)
table_lines(db, table_name, include_data) ==
    LET create_sql == (CHOOSE e \in db.master : e.type = "table" /\ e.name = table_name).sql
        rows == db.rows[table_name]
    IN  << Line("sql", create_sql, "", <<>>) >>
          \o (IF include_data
              THEN [r \in DOMAIN rows |->
                      Line("insert", "", table_name,
                           [i \in DOMAIN rows[r] |-> val_str(rows[r][i])])]
              ELSE <<>>)

\* the index names of the model in the order of ORDER BY name
DumpIndexes == << "i", "sqlite_autoindex_u_1" >>

\* SELECT sql FROM sqlite_master WHERE type='index' AND sql IS NOT NULL ORDER BY name
index_lines(db) ==
    LET found == SelectSeq(DumpIndexes,
                     LAMBDA n : \E e \in db.master :
                                    e.type = "index" /\ e.name = n /\ e.sql # None)
    IN  [k \in DOMAIN found |->
            Line("sql", (CHOOSE e \in db.master : e.type = "index" /\ e.name = found[k]).sql,
                 "", <<>>)]

\* generate_sql_dump: [ok, output]; the query for the CREATE statement of a
\* table that is not there fails
generate_sql_dump(db, tables, include_data) ==
    LET table_list == IF tables # None THEN tables ELSE db_get_tables(db)
    IN  IF \E k \in DOMAIN table_list :
               ~\E e \in db.master : e.type = "table" /\ e.name = table_list[k]
        THEN [ok |-> FALSE, output |-> <<>>]
        ELSE [ok |-> TRUE,
              output |->
                  << Line("sql", "PRAGMA foreign_keys=OFF", "", <<>>),
                     Line("sql", "BEGIN TRANSACTION", "", <<>>) >>
                    \o concat([k \in DOMAIN table_list |->
                                  table_lines(db, table_list[k], include_data)])
                    \o index_lines(db)
                    \o << Line("sql", "COMMIT", "", <<>>) >>]

\* cmd_dump: the text that is written, for .dump with a table name or without
cmd_dump(db, table) ==
    generate_sql_dump(db, IF table # None THEN << table >> ELSE db_get_tables(db), TRUE)

\* the value an SQL literal stands for
literal_value(text) ==
    CASE text = NULL_CELL -> NullValue
      [] Head(text) = "'" ->
           LET inner == SubSeq(text, 2, Len(text) - 1)
               RECURSIVE unquote(_)
               unquote(str) ==
                   IF str = <<>> THEN <<>>
                   ELSE IF Head(str) = "'" /\ Len(str) >= 2 /\ str[2] = "'"
                        THEN << "'" >> \o unquote(Tail(Tail(str)))
                        ELSE << Head(str) >> \o unquote(Tail(str))
           IN  Value("text", unquote(inner))
      [] Head(text) = "X" -> Value("blob", SubSeq(text, 3, Len(text) - 1))
      [] contains(text, ".") -> Value("real", text)
      [] OTHER -> Value("integer", text)

\* the value as a column of the declared type stores it: a REAL column holds
\* an integer as a real
with_affinity(value, decl) ==
    IF decl = "REAL" /\ value.class = "integer"
    THEN Value("real", value.content \o << ".", "0" >>)
    ELSE value

\* the entries a CREATE statement adds to sqlite_master: the object itself and
\* the indexes without sql that belong to a table; nothing when the table an
\* index is on is not there
created_by(db, sql) ==
    LET made == { e \in MasterEntries : e.sql = sql }
        own == { e \in MasterEntries :
                    e.sql = None /\ \E t \in made : t.type = "table" /\ t.name = e.tbl_name }
    IN  IF \E e \in made : e.type = "index"
                             /\ ~\E t \in db.master : t.type = "table" /\ t.name = e.tbl_name
        THEN {}
        ELSE made \cup own

\* sqlite running one line of a dump on a database
execute_line(db, line) ==
    IF line.kind = "sql"
    THEN [db EXCEPT !.master = @ \cup created_by(db, line.sql)]
    ELSE IF \E e \in db.master : e.type = "table" /\ e.name = line.table
    THEN [db EXCEPT !.rows[line.table] =
             Append(@, [i \in DOMAIN line.values |->
                           with_affinity(literal_value(line.values[i]),
                                         ColumnTypes(line.table)[i])])]
    ELSE db

\* sqlite running the lines of a dump from line k on
RECURSIVE execute_dump(_, _, _)
execute_dump(db, lines, k) ==
    IF k > Len(lines) THEN db ELSE execute_dump(execute_line(db, lines[k]), lines, k + 1)

\* a database and the argument of .dump are given
DumpStart ==
    /\ ReplStart
    /\ lsp = SqlLspService_new
    /\ catalog = [tables |-> {}, indexes |-> {}]
    /\ call \in [op : { "input" }, db : Databases, table : { None, "t", "nosuch" }]

\* .dump
CmdDump ==
    /\ call.op = "input"
    /\ \E r \in { cmd_dump(call.db, call.table) } :
           call' = [op |-> "dump", db |-> call.db, table |-> call.table,
                    ok |-> r.ok, output |-> r.output]
    /\ UNCHANGED << lsp, catalog >>
    /\ UNCHANGED replvars

\* the text of a dump is run on an empty database
RunDump ==
    /\ call.op = "dump"
    /\ call.ok
    /\ call' = [op |-> "restored", db |-> call.db, table |-> call.table,
                output |-> call.output,
                restored |-> execute_dump(EmptyDatabase, call.output, 1)]
    /\ UNCHANGED << lsp, catalog >>
    /\ UNCHANGED replvars

NextDump == CmdDump \/ RunDump

SpecDump == DumpStart /\ [][NextDump]_vars

\* the rows of a table as a bag
RowBag(rows) == [r \in Range(rows) |-> Cardinality({ i \in DOMAIN rows : rows[i] = r })]

\* C18: the text of .dump, run on an empty database, gives a database with the
\* same sqlite_master content and the same rows in every table
C18_DumpRoundTrip ==
    (call.op = "restored" /\ call.table = None)
    => /\ call.restored.master = call.db.master
       /\ \A t \in Range(DumpTables) : RowBag(call.restored.rows[t]) = RowBag(call.db.rows[t])

(***************************************************************************)
(* import_export.rs: import_csv, on a connection that lives on between the *)
(* calls.  The database of the connection (catalog) holds the rows the     *)
(* connection sees, the rows that are committed and whether a transaction  *)
(* is open.  The table has one column with a UNIQUE constraint.            *)
(***************************************************************************)
MaxRecords == 2
MaxImports == 2

\* a data line of a CSV file: a value, or a line the reader fails on
BadRecord == "bad record"
RecordsOfFile == { "1", "2", BadRecord }

\* the files .import may name: one that cannot be opened, one whose header
\* line cannot be read, and files with a header line and data lines
CsvFiles ==
    { [opens |-> FALSE, header |-> FALSE, records |-> <<>>],
      [opens |-> TRUE, header |-> FALSE, records |-> <<>>] }
    \cup { [opens |-> TRUE, header |-> TRUE, records |-> recs] :
              recs \in UNION { [1..n -> RecordsOfFile] : n \in 0..MaxRecords } }

\* the loop over reader.records() from record k on (import_export.rs:115-131):
\* [ok, db]; a record that cannot be read or inserted returns the error at once
RECURSIVE import_records(_, _, _)
import_records(db, records, k) ==
    IF k > Len(records) THEN [ok |-> TRUE, db |-> db]
    ELSE IF records[k] = BadRecord THEN [ok |-> FALSE, db |-> db]
    ELSE IF \E i \in DOMAIN db.rows : db.rows[i] = records[k]
         THEN [ok |-> FALSE, db |-> db]
         ELSE import_records([db EXCEPT !.rows = Append(@, records[k])], records, k + 1)

\* import_csv: [ok, db]; BEGIN fails inside a transaction
import_csv(db, file) ==
    IF ~file.opens \/ ~file.header THEN [ok |-> FALSE, db |-> db]
    ELSE IF db.in_transaction THEN [ok |-> FALSE, db |-> db]
    ELSE LET begun == [db EXCEPT !.in_transaction = TRUE]
             done == import_records(begun, file.records, 1)
         IN  IF ~done.ok THEN done
             ELSE [ok |-> TRUE,
                   db |-> [done.db EXCEPT !.committed = done.db.rows,
                                          !.in_transaction = FALSE]]

\* a connection to a database with an empty table, no transaction open
ImportStart ==
    /\ ReplStart
    /\ lsp = SqlLspService_new
    /\ catalog = [rows |-> <<>>, committed |-> <<>>, in_transaction |-> FALSE]
    /\ call = [op |-> "none", n |-> 0]

\* .import FILE TABLE
CmdImport ==
    /\ call.n < MaxImports
    /\ \E file \in CsvFiles :
       \E r \in { import_csv(catalog, file) } :
           /\ catalog' = r.db
           /\ call' = [op |-> "import", n |-> call.n + 1, ok |-> r.ok, file |-> file,
                       before |-> catalog]
    /\ UNCHANGED lsp
    /\ UNCHANGED replvars

NextImport == CmdImport

SpecImport == ImportStart /\ [][NextImport]_vars

\* C24: when .import returns, every data row of the file is inserted and
\* committed, or none of them is visible; in both cases no transaction is open
C24_ImportAllOrNothing ==
    call.op = "import" =>
        /\ ~catalog.in_transaction
        /\ IF call.ok
           THEN /\ catalog.rows = call.before.rows \o call.file.records
                /\ catalog.committed = catalog.rows
           ELSE catalog.rows = call.before.rows

(***************************************************************************)
(* main.rs: run_piped, the loop over the pieces of standard input.         *)
(*                                                                         *)
(* call holds the position of the loop: the pieces, the index of the next  *)
(* one, the settings, the databases, the statements handed to the engine   *)
(* and the indexes of the pieces that were run.                            *)
(***************************************************************************)
\* what standard input may hold
PipedInputs ==
    { << "SELECT", SEMI >>,
      << ".quit", SEMI, WS, "SELECT", SEMI >>,
      << "SELECT", SEMI, NL, ".exit", SEMI, NL, "DROP", SEMI >>,
      << "CREATE", SEMI, ".quit" >>,
      << ".mode", WS, "csv", NL, "SELECT", SEMI >>,
      << ".mode", WS, "csv", SEMI, NL, "SELECT", SEMI >>,
      << ".headers", WS, "on", NL, "CREATE", SEMI, "SELECT", SEMI >>,
      << ".bogus", SEMI, "SELECT", SEMI >>,
      << ".read", WS, "ok.sql", SEMI, "DROP", SEMI >>,
      << ".read", WS, "quit.sql", SEMI, "DROP", SEMI >>,
      << ".open", WS, "b.db", SEMI, "SELECT", SEMI >>,
      << "bad", SEMI, "SELECT", SEMI >>,
      << ".read", WS, "line.sql", SEMI >>,
      << WS, SEMI, SEMI, "SELECT" >> }

\* one pass of the loop of run_piped over piece i: the position after it
run_piped_piece(c, p) ==
    LET trimmed == trim(p.pieces[p.i])
        next == [p EXCEPT !.i = p.i + 1]
    IN  IF trimmed # <<>>
        THEN IF starts_with_dot(trimmed)
             THEN LET r == execute(c, trimmed, p.state, p.dbs, p.eng, p.k, 0)
                      ran == [next EXCEPT !.state = r.state, !.dbs = r.dbs, !.k = r.k,
                                          !.handed = p.handed \o r.handed,
                                          !.ran = Append(p.ran, p.i)]
                  IN  CASE r.tag = "Err" -> [ran EXCEPT !.status = "Err"]
                        [] r.tag = "StackOverflow" -> [ran EXCEPT !.status = "StackOverflow"]
                        [] r.tag = "Exit" -> [ran EXCEPT !.status = "Exit"]
                        [] OTHER -> ran
             ELSE LET sql == Append(trimmed, SEMI)
                      r == sql_executor_execute(c, sql, p.dbs, EngAt(p.eng, p.k))
                      ran == [next EXCEPT !.dbs = r.dbs, !.k = p.k + 1,
                                          !.handed = Append(p.handed, sql),
                                          !.ran = Append(p.ran, p.i)]
                  IN  IF r.ok THEN ran ELSE [ran EXCEPT !.status = "Err"]
        ELSE next

\* run_piped up to the loop: a connection, fresh settings, standard input read
PipedStart ==
    /\ ReplStart
    /\ lsp = SqlLspService_new
    /\ catalog = [rows |-> <<>>, committed |-> <<>>, in_transaction |-> FALSE]
    /\ \E input \in PipedInputs : \E eng \in [1..MaxStmts -> EngineOutcomes] :
          call = [op |-> "run_piped", input |-> input, pieces |-> split_semi(input),
                  i |-> 1, eng |-> eng, k |-> 1, state |-> CliState_new("a.db", TRUE),
                  dbs |-> InitialDbs, handed |-> <<>>, ran |-> <<>>,
                  status |-> "running"]

\* one iteration of `for stmt in input.split(';')`
PipedPiece ==
    /\ call.status = "running"
    /\ call.i <= Len(call.pieces)
    /\ call' = run_piped_piece("a.db", call)
    /\ UNCHANGED <<replvars, lsp, catalog>>

\* the end of the input: Ok(())
PipedEnd ==
    /\ call.status = "running"
    /\ call.i > Len(call.pieces)
    /\ call' = [call EXCEPT !.status = "Ok"]
    /\ UNCHANGED <<replvars, lsp, catalog>>

NextPiped == PipedPiece \/ PipedEnd

SpecPiped == PipedStart /\ [][NextPiped]_vars

\* piece i of the input is a `.quit` or `.exit` command
IsQuitPiece(pieces, i) ==
    LET parts == split_whitespace(trim(pieces[i]))
    IN  /\ starts_with_dot(trim(pieces[i]))
        /\ DotCommand_from_str(Word(parts[1])) \in { ".quit", ".exit" }

\* C25 as stated: in piped mode no piece that follows a `.quit` or `.exit`
\* piece which was run is run.
C25_QuitEndsPipedInput ==
    call.op = "run_piped" =>
        \A b \in 1..Len(call.ran) : \A a \in 1..(b - 1) :
            ~IsQuitPiece(call.pieces, call.ran[a])

\* the lines of a text
RECURSIVE lines_from(_, _, _)
lines_from(s, cur, acc) ==
    IF s = <<>>
    THEN Append(acc, cur)
    ELSE IF Head(s) = NL
         THEN lines_from(Tail(s), <<>>, Append(acc, cur))
         ELSE lines_from(Tail(s), Append(cur, Head(s)), acc)

\* the SQL of a piece: its lines that are not dot-command lines
RECURSIVE SqlOfLines(_)
SqlOfLines(ls) ==
    IF ls = <<>> THEN <<>>
    ELSE (IF starts_with_dot(trim(Head(ls))) THEN <<>> ELSE Head(ls) \o << NL >>)
           \o SqlOfLines(Tail(ls))

SqlOf(piece) == trim(SqlOfLines(lines_from(piece, <<>>, <<>>)))

\* the scripts a piece names in `.read FILE` lines
ScriptsReadBy(piece) ==
    LET ls == lines_from(piece, <<>>, <<>>)
    IN  { ArgumentOf(ls[n]) : n \in { m \in DOMAIN ls : starts_with_dot(trim(ls[m]))
                                                      /\ CommandOf(ls[m]) = ".read" } }
          \cap DOMAIN Scripts

\* the SQL statements of an input, those of the scripts it reads included
RECURSIVE SqlStatementsIn(_, _)
SqlStatementsIn(text, depth) ==
    LET pieces == split_semi(text)
    IN  { Append(SqlOf(pieces[n]), SEMI) : n \in { m \in DOMAIN pieces : SqlOf(pieces[m]) # <<>> } }
          \cup ( IF depth = 0 THEN {}
                 ELSE UNION { SqlStatementsIn(Scripts[f], depth - 1) :
                                f \in UNION { ScriptsReadBy(pieces[n]) : n \in DOMAIN pieces } } )

\* C26 as stated: when a piped input (and the scripts it reads) has been run to
\* its end without an error, every SQL statement in it was handed to the
\* engine, a statement that follows a dot-command line without `;` included.
C26_NoSqlDiscarded ==
    ( call.op = "run_piped" /\ call.status = "Ok" ) =>
        SqlStatementsIn(call.input, MaxDepth) \subseteq Range(call.handed)

(***************************************************************************)
(* Blank lines at the prompt (SpecRepl).                                   *)
(***************************************************************************)
\* every line is empty or holds whitespace only
AllBlank(ls) == \A n \in DOMAIN ls : trim(ls[n]) = <<>>

\* C27 as stated: while the lines entered since the buffer was last empty are
\* all empty or whitespace-only, the prompt is the primary one, and a
\* dot-command line that follows such lines is dispatched.
C27_BlankLinesKeepPrimaryPrompt ==
    /\ AllBlank(entered) => prompt(sql_buffer) = "rsqlite3> "
    /\ ( /\ last.ev = "line"
         /\ starts_with_dot(trim(last.line))
         /\ entered # <<>>
         /\ AllBlank(SubSeq(entered, 1, Len(entered) - 1)) ) => last.disp = "dot"

(***************************************************************************)
(* completion.rs: Completer::complete, the candidates the line editor      *)
(* shows.  The completer holds its own SqlLspService.                      *)
(***************************************************************************)
\* DotCommand::all and OutputMode::all as the names they are shown by
DotCommand_all ==
    << ".quit", ".exit", ".help", ".tables", ".schema", ".mode", ".headers", ".show",
       ".dump", ".output", ".read", ".databases", ".separator", ".nullvalue", ".import",
       ".timer", ".echo", ".width", ".bail", ".open" >>
OutputMode_all == << "list", "csv", "column", "line", "json", "jsonl", "table", "markdown" >>
get_on_off == << "on", "off" >>

\* SqlCompleter::get_dot_command_completions: None on a line that is no
\* dot-command
get_dot_command_completions(self, line, pos) ==
    LET before_cursor == SubSeq(line, 1, pos)
        words == split_whitespace(before_cursor)
        dot_cmd == to_lowercase(Word(words[1]))
        has_space_after_cmd ==
            before_cursor[Len(before_cursor)] = WS \/ Len(words) >= 2
    IN  IF ~starts_with_dot(trim_start(before_cursor)) THEN None
        ELSE IF words # <<>> /\ has_space_after_cmd
             THEN CASE dot_cmd \in { ".schema", ".dump" } -> self.cached_tables
                    [] dot_cmd = ".mode" -> OutputMode_all
                    [] dot_cmd \in { ".headers", ".timer", ".echo" } -> get_on_off
                    [] dot_cmd = ".import" /\ Len(words) >= 3 -> self.cached_tables
                    [] OTHER -> DotCommand_all
             ELSE DotCommand_all

\* SqlCompleter::get_context_completions: the labels of the candidates
get_context_completions(self, line, pos, order) ==
    LET completions == get_dot_command_completions(self, line, pos)
        lsp_completions == completion(self, line, pos, order).items
    IN  IF completions # None THEN completions
        ELSE [i \in DOMAIN lsp_completions |-> lsp_completions[i].label]

\* the start of the word under completion: the lexemes of letters, digits,
\* underscores and dots left of the cursor belong to it (completion.rs:291-303)
RECURSIVE word_start(_, _)
word_start(line, start) ==
    IF start > 0 /\ (is_alphanumeric(line[start]) \/ line[start] = PERIOD)
    THEN word_start(line, start - 1)
    ELSE start

\* candidate.to_lowercase().starts_with(&word_lower): a word of several
\* lexemes holds a dot after a name, which no candidate does
candidate_starts_with(candidate, word) ==
    CASE word = <<>> -> TRUE
      [] Len(word) = 1 -> str_starts_with(to_lowercase(candidate), to_lowercase(word[1]))
      [] OTHER -> FALSE

\* Completer::complete: [start, matches]
complete(self, line, pos, order) ==
    LET start == word_start(line, pos)
        word == SubSeq(line, start + 1, pos)
        candidates == get_context_completions(self, line, pos, order)
    IN  [ start |-> start,
          matches |-> SelectSeq(candidates, LAMBDA c : candidate_starts_with(c, word)) ]

\* the lines the editor asks about: those of CompletionInputs and dot-commands
CompleterInputs ==
    CompletionInputs
    \cup { [text |-> << "SELECT", WS, "users", PERIOD, "n" >>, offset |-> 5],
           [text |-> << "SELECT", WS, "n", WS, "FROM", WS, "users" >>, offset |-> 3],
           [text |-> << ".mode", WS >>, offset |-> 2],
           [text |-> << ".mode", WS, "csv" >>, offset |-> 3],
           [text |-> << ".schema", WS >>, offset |-> 2],
           [text |-> << ".headers", WS, "on" >>, offset |-> 3],
           [text |-> << ".import", WS, "a.csv", WS >>, offset |-> 4],
           [text |-> << ".mode" >>, offset |-> 1],
           [text |-> << ".bail", WS >>, offset |-> 2] }

\* a completer whose service holds some cache, a line and a cursor
CompleterStart ==
    /\ ReplStart
    /\ catalog \in Catalogs
    /\ lsp \in CachesOf(catalog)
    /\ call \in [op : {"input"}, at : CompleterInputs]

\* the editor asks for the candidates at the cursor
Complete ==
    /\ call.op = "input"
    /\ \E order \in KeyOrders(extract_tables_aliases(call.at.text)) :
       \E r \in { complete(lsp, call.at.text, call.at.offset, order) } :
       \E l \in { completion(lsp, call.at.text, call.at.offset, order) } :
           call' = [op |-> "complete", text |-> call.at.text, offset |-> call.at.offset,
                    aliases |-> extract_tables_aliases(call.at.text),
                    start |-> r.start, matches |-> r.matches,
                    qualifier |-> l.qualifier,
                    table |-> IF l.qualifier = None THEN None
                              ELSE resolve_qualifier(lsp, extract_tables_aliases(call.at.text),
                                                     order, l.qualifier),
                    labels |-> [i \in DOMAIN l.items |-> l.items[i].label]]
    /\ UNCHANGED << lsp, catalog >>
    /\ UNCHANGED replvars

NextCompleter == Complete

SpecCompleter == CompleterStart /\ [][NextCompleter]_vars

\* C28 as stated: on a line whose cursor follows `q.p`, q resolving to a
\* cached table, Completer::complete returns the labels that
\* SqlLspService::completion returns (the columns of the table that start
\* with p) and the replacement starts at p.
C28_CompleterAgreesOnQualifiedNames ==
    ( /\ call.op = "complete"
      /\ call.qualifier # None
      /\ call.table \in Range(lsp.cached_tables) )
    => /\ call.matches = call.labels
       /\ call.start = get_word_at_offset(call.text, call.offset).start

(***************************************************************************)
(* Dot-commands that fail on what the user typed (SpecSettings).           *)
(***************************************************************************)
\* the lines of a session that changes settings, with and without mistakes
SettingLines ==
    { << ".mode", WS, "csv" >>, << ".mode", WS, "bogus" >>, << ".mode" >>,
      << ".headers", WS, "off" >>, << ".headers", WS, "maybe" >>,
      << ".timer", WS, "maybe" >>, << ".echo", WS, "2" >>,
      << ".bail", WS, "on" >>, << ".bail", WS, "maybe" >>,
      << ".separator", WS, "," >>, << ".nullvalue", WS, "NULL" >>,
      << ".output", WS, "a.csv" >>, << ".output" >>,
      << ".width", WS, "8", WS, "1" >>, << ".width", WS, "8", WS, "x" >>,
      << ".width", WS, "x", WS, "8" >>, << ".width" >>,
      << ".read" >>, << ".open" >>, << ".import", WS, "a.csv" >>,
      << ".bogus" >>, << ".bogus", WS, "on" >> }

SettingsInput ==
    \E line \in SettingLines : \E eng \in EngineAnswers(sql_buffer, line) : ReadLine(line, eng)

NextSettings == SettingsInput \/ Interrupted \/ Eof \/ ReadlineError

SpecSettings == Init /\ [][NextSettings]_vars

\* the line is a dot-command with a mistake of the user in it: an unknown
\* name, an unknown mode, an argument that is no boolean, a width that is no
\* number, or a required argument left out
UserInputError(line) ==
    LET parts == split_whitespace(trim(line))
        cmd == Word(parts[1])
        args == Tail(parts)
    IN  \/ cmd \notin DotCommand
        \/ cmd = ".mode" /\ args # <<>> /\ Word(args[1]) \notin OutputMode
        \/ /\ cmd \in { ".headers", ".timer", ".echo", ".bail" }
           /\ args # <<>>
           /\ Word(args[1]) \notin { "on", "off", "1", "0", "yes", "no", "true", "false" }
        \/ /\ cmd = ".width"
           /\ \/ args = <<>>
              \/ \E i \in DOMAIN args : Word(args[i]) \notin { "0", "1", "8" }
        \/ cmd \in { ".read", ".open" } /\ args = <<>>
        \/ cmd = ".import" /\ Len(args) < 2

\* C29: a dot-command that fails on user input returns an error and leaves
\* every setting of the REPL as it was.
C29_FailedDotCommandChangesNothing ==
    [][ ( /\ pc = "prompt"
          /\ last'.ev = "line"
          /\ last'.disp = "dot"
          /\ UserInputError(last'.line) )
        => ( last'.tag = "Err" /\ state' = state ) ]_vars

\* `.width` with an argument that is no number has failed after the widths,
\* the mode, the separator and the output sink had been changed
C29_Witness ==
    /\ last.ev = "line"
    /\ last.disp = "dot"
    /\ last.tag = "Err"
    /\ CommandOf(last.line) = ".width"
    /\ UserInputError(last.line)
    /\ state.column_widths = << 8, 1 >>
    /\ state.separator = ","
    /\ state.output_file = "a.csv"
    /\ ~state.show_headers

(***************************************************************************)
(* dot_commands.rs: cmd_read step by step.  Each call of cmd_read that has *)
(* not returned is a frame [file, pieces, i] of call.stack, the innermost  *)
(* last; the loop of the innermost call is at piece i.  The stack of the    *)
(* process holds MaxDepth frames.                                          *)
(***************************************************************************)
\* cmd_read is called on a file: the file is read and split, or the call fails
enter_script(p, file) ==
    IF file \notin DOMAIN Scripts
    THEN [p EXCEPT !.status = "Err"]
    ELSE IF Len(p.stack) >= MaxDepth
         THEN [p EXCEPT !.status = "StackOverflow"]
         ELSE [p EXCEPT !.stack = Append(p.stack, [file |-> file,
                                                   pieces |-> split_semi(Scripts[file]),
                                                   i |-> 1])]

\* the innermost loop moves to its next piece
next_piece(p) == [p EXCEPT !.stack[Len(p.stack)].i = p.stack[Len(p.stack)].i + 1]

\* one pass of the loop of the innermost cmd_read over its piece i
script_piece(c, p) ==
    LET top == p.stack[Len(p.stack)]
        trimmed == trim(top.pieces[top.i])
        parts == split_whitespace(trimmed)
    IN  IF trimmed # <<>> /\ ~starts_with_dot(trimmed)
        THEN LET sql == Append(trimmed, SEMI)
                 r == sql_executor_execute(c, sql, p.dbs, EngAt(p.eng, p.k))
                 ran == [p EXCEPT !.dbs = r.dbs, !.k = p.k + 1,
                                  !.handed = Append(p.handed, sql)]
             IN  IF r.ok THEN next_piece(ran) ELSE [ran EXCEPT !.status = "Err"]
        ELSE IF starts_with_dot(trimmed)
             THEN IF DotCommand_from_str(Word(parts[1])) = ".read" /\ Arg(parts, 2) # None
                  THEN enter_script(p, Arg(parts, 2))
                  ELSE LET r == execute(c, trimmed, p.state, p.dbs, p.eng, p.k, 0)
                           ran == [p EXCEPT !.state = r.state, !.dbs = r.dbs, !.k = r.k]
                       IN  CASE r.tag \in { "Err", "ChangeDb" } -> [ran EXCEPT !.status = "Err"]
                             [] r.tag = "Quit" -> [ran EXCEPT !.status = "Exit"]
                             [] OTHER -> next_piece(ran)
             ELSE next_piece(p)

\* the innermost cmd_read returns Ok(()): its caller, if it is a cmd_read too,
\* goes on with its next piece
script_return(p) ==
    LET rest == SubSeq(p.stack, 1, Len(p.stack) - 1)
    IN  IF rest = <<>>
        THEN [p EXCEPT !.stack = rest, !.status = "Ok"]
        ELSE next_piece([p EXCEPT !.stack = rest])

\* the files `.read` is given
ReadFiles == DOMAIN Scripts \cup { "missing.sql" }

\* `.read FILE` has been dispatched and cmd_read has been called
ScriptStart ==
    /\ ReplStart
    /\ lsp = SqlLspService_new
    /\ catalog = [rows |-> <<>>, committed |-> <<>>, in_transaction |-> FALSE]
    /\ \E file \in ReadFiles : \E eng \in [1..MaxStmts -> EngineOutcomes] :
          call = enter_script([op |-> "read", file |-> file, stack |-> <<>>, eng |-> eng,
                               k |-> 1, state |-> CliState_new("a.db", TRUE),
                               dbs |-> InitialDbs, handed |-> <<>>, status |-> "running"],
                              file)

\* one iteration of the loop of the innermost cmd_read
ScriptPiece ==
    /\ call.status = "running"
    /\ call.stack[Len(call.stack)].i <= Len(call.stack[Len(call.stack)].pieces)
    /\ call' = script_piece("a.db", call)
    /\ UNCHANGED <<replvars, lsp, catalog>>

\* the loop of the innermost cmd_read is over
ScriptReturn ==
    /\ call.status = "running"
    /\ call.stack[Len(call.stack)].i > Len(call.stack[Len(call.stack)].pieces)
    /\ call' = script_return(call)
    /\ UNCHANGED <<replvars, lsp, catalog>>

NextScript == ScriptPiece \/ ScriptReturn

\* the process runs on while it can
SpecScript == ScriptStart /\ [][NextScript]_vars /\ WF_vars(NextScript)

\* C30 as stated: `.read FILE` terminates: the call returns to its caller with
\* Ok or an error (or the script ends the process with `.quit`), whatever the
\* script reads in turn.
C30_ReadTerminates ==
    <>( call.status \in { "Ok", "Err", "Exit" } )
====
